---- MODULE Spec2Model ----
(***************************************************************************)
(* A model of the simulation core of Lexy's Labyrinth (src/js/game.js):    *)
(* Tile, Cell and Level, the per-tic pipeline, the Lynx PRNG and the undo  *)
(* log.  The Level object is one record, `level`; every method of the      *)
(* source is an operator from a Level record to a Level record, and the    *)
(* public entry points (advance_tic, undo, prng, ...) are the actions.     *)
(*                                                                         *)
(* JavaScript values: `null` and `undefined` are kept apart.  In a field   *)
(* that holds strings they are "null" and "undefined", in a field that     *)
(* holds numbers they are NullN and UndefN, in a field that holds a cell   *)
(* they are NullCell and UndefCell, and a boolean field holds "true",      *)
(* "false" or "undefined".  A thrown exception is the field `thrown`       *)
(* ("none", "GameEnded", "Error"); every operator is the identity once     *)
(* something has been thrown, which is how the remainder of a call is      *)
(* skipped when the stack unwinds.                                         *)
(***************************************************************************)
EXTENDS Integers, Sequences, FiniteSets, TLC

VARIABLES
    level,      \* the Level object (with its cells and tiles)
    call,       \* the last call made by the driver and how it ended
    pre,        \* the Level object as it was when that call was made
    snaps,      \* history: for each committed entry of the undo stack, the
                \* logged game state at the start of its tic
    outs,       \* history: the values returned by the direct calls (prng, attempt_step, Cell._remove)
    decisions,  \* history: the directions decided by the blob of the roster
    undos,      \* the number of undo() calls made
    random_byte, \* the value Math.floor(Math.random() * 256) gave restart
    neighbors,  \* the work queue of an update_wiring under way, or <<>>
    selection   \* the level editor's Selection object

vars == <<level, call, pre, snaps, outs, decisions, undos, random_byte, neighbors,
          selection>>

\* new Selection(editor): nothing selected, nothing floating
NewSelection ==
    [cells |-> {}, floated_cells |-> <<>>, floated_offset |-> <<>>,
     floated_element |-> FALSE]

----------------------------------------------------------------------------
(* Bounds of the exploration *)

MaxTic == 3          \* tics played in a level of the game specification
MaxSeed == 1         \* Math.random() seeds of the blob modifier tried in a game
MaxRngCalls == 12    \* direct calls of prng() / get_blob_modifier()
MaxLongTic == 202    \* tics played in the idle level (beyond the undo cap)
MaxLongUndo == 3     \* undos made in the idle level
MaxUndo == 2         \* undos made in a level of the game specification

(* Program constants *)

UndoCap == 200
InitialBlobModifier == 85      \* 0x55

(* JavaScript null / undefined in numeric and cell-valued fields *)

NullN == -1
UndefN == -2
NullCell == 0
UndefCell == -2

(* JavaScript false / true where a field also holds numbers *)

FalseN == -3
TrueN == -4

----------------------------------------------------------------------------
(* Integer helpers: JavaScript bit operators on 32-bit integers *)

Min(a, b) == IF a < b THEN a ELSE b
Max(a, b) == IF a > b THEN a ELSE b

RECURSIVE BitAnd(_, _)
BitAnd(a, b) ==
    IF a = 0 \/ b = 0 THEN 0
    ELSE (IF a % 2 = 1 /\ b % 2 = 1 THEN 1 ELSE 0) + 2 * BitAnd(a \div 2, b \div 2)

RECURSIVE BitOr(_, _)
BitOr(a, b) ==
    IF a = 0 THEN b
    ELSE IF b = 0 THEN a
    ELSE (IF a % 2 = 1 \/ b % 2 = 1 THEN 1 ELSE 0) + 2 * BitOr(a \div 2, b \div 2)

RECURSIVE BitXor(_, _)
BitXor(a, b) ==
    IF a = 0 THEN b
    ELSE IF b = 0 THEN a
    ELSE (IF a % 2 # b % 2 THEN 1 ELSE 0) + 2 * BitXor(a \div 2, b \div 2)

\* x & m for a mask 0 <= m < 256 and any 32-bit x (two's complement low byte)
AndMask(x, m) == BitAnd(x % 256, m)

\* (x << 1) | b for a 32-bit signed x and a bit b, wrapping as JavaScript does
Shl1Or(x, b) ==
    LET low30 == x % 1073741824
        bit30 == (x \div 1073741824) % 2
        twice == 2 * low30 + b
    IN  IF bit30 = 1 THEN (twice - 1073741824) - 1073741824 ELSE twice

----------------------------------------------------------------------------
(* The direction table (defs.js) *)

DirNames == <<"north", "east", "south", "west">>
Dirs == {"north", "east", "south", "west"}

DIRECTIONS ==
    [d \in Dirs |->
        CASE d = "north" -> [movement |-> <<0, -1>>, bit |-> 1,
                             opposite |-> "south", left |-> "west", right |-> "east"]
          [] d = "east"  -> [movement |-> <<1, 0>>, bit |-> 2,
                             opposite |-> "west", left |-> "north", right |-> "south"]
          [] d = "south" -> [movement |-> <<0, 1>>, bit |-> 4,
                             opposite |-> "north", left |-> "east", right |-> "west"]
          [] d = "west"  -> [movement |-> <<-1, 0>>, bit |-> 8,
                             opposite |-> "east", left |-> "south", right |-> "north"]]

----------------------------------------------------------------------------
(* The tile-type registry (tiletypes.js): the capability flags the engine   *)
(* reads.  Behaviour hooks are the operators on_arrive etc. further down.   *)

PlayerSpeed == 2
BlockSpeed == 2
BlobSpeed == 4
ExplosionTTL == 2

\* the monsters of the registry and the movement mode of each
Monsters == {"blob", "teeth", "walker", "bug", "paramecium", "glider", "fireball", "ball"}

MovementMode(name) ==
    CASE name = "blob" -> "random"
      [] name = "teeth" -> "pursue"
      [] name = "walker" -> "bounce-random"
      [] name = "bug" -> "follow-left"
      [] name = "paramecium" -> "follow-right"
      [] name = "glider" -> "turn-left"
      [] name = "fireball" -> "turn-right"
      [] name = "ball" -> "bounce"
      [] OTHER -> "undefined"

\* the force floors and the direction each one pushes in
ForceFloors == {"force_floor_n", "force_floor_e", "force_floor_s", "force_floor_w"}

\* the types with a teleport_dest_order
Teleporters == {"teleport_blue", "teleport_red"}

ForceFloorDirection(name) ==
    CASE name = "force_floor_n" -> "north"
      [] name = "force_floor_e" -> "east"
      [] name = "force_floor_s" -> "south"
      [] name = "force_floor_w" -> "west"

\* the thin walls and the edge of the cell each one closes
ThinWalls(name) ==
    CASE name = "thinwall_n" -> {"north"}
      [] name = "thinwall_e" -> {"east"}
      [] name = "thinwall_s" -> {"south"}
      [] name = "thinwall_w" -> {"west"}
      [] OTHER -> {}

\* the tools: what carrying one makes its bearer ignore (item_ignores)
ItemIgnores(name) ==
    CASE name = "cleats" -> {"ice"}
      [] OTHER -> {}

\* TILE_TYPES[name]: a type without a flag reads it as undefined, which is
\* falsy; a name the registry does not know gets no flag at all
TILE_TYPES(name) ==
    [name |-> name,
     is_actor |-> name \in {"player", "dirt_block", "explosion"} \cup Monsters,
     is_player |-> name = "player",
     is_monster |-> name \in Monsters,
     is_block |-> name = "dirt_block",
     blocks_all |-> name \in {"wall", "dirt_block", "explosion", "cloner"},
     blocks_players |-> FALSE,
     blocks_monsters |-> name \in {"exit", "chip", "cleats"} \cup Monsters,
     blocks_blocks |-> name \in {"exit", "chip", "cleats"} \cup Monsters,
     has_inventory |-> name = "player",
     is_power_source |-> name = "button_pink",
     is_item |-> name = "cleats",
     is_key |-> FALSE,
     disables_pickup |-> FALSE,
     item_ignores |-> ItemIgnores(name),
     is_hint |-> FALSE,
     uses_teeth_hesitation |-> name = "teeth",
     movement_mode |-> MovementMode(name),
     movement_speed |-> CASE name = "player" -> PlayerSpeed
                          [] name = "dirt_block" -> BlockSpeed
                          [] name \in Monsters -> BlobSpeed
                          [] OTHER -> UndefN,
     ttl |-> IF name = "explosion" THEN ExplosionTTL ELSE UndefN,
     slide_mode |-> CASE name = "ice" -> "ice"
                      [] name \in ForceFloors -> "force"
                      [] OTHER -> "undefined",
     pushes |-> IF name = "player" THEN {"dirt_block"} ELSE {},
     ignores |-> {},
     thin_walls |-> ThinWalls(name),
     has_teleport_dest_order |-> name \in Teleporters,
     teleport_try_all_directions |-> name = "teleport_red",
     has_on_bump |-> FALSE,
     has_on_arrive |-> name \in {"exit", "chip", "trap", "bomb"} \cup ForceFloors,
     has_on_depart |-> FALSE]

----------------------------------------------------------------------------
(* Tile (src/js/game.js, class Tile) *)

\* new Tile(type, direction): the fields every object of the model carries;
\* a field the constructor does not set is undefined
NewTile(type_name, direction) ==
    LET type == TILE_TYPES(type_name) IN
    [type |-> type_name,
     direction |-> direction,
     cell |-> NullCell,
     slide_mode |-> IF type.is_actor THEN "null" ELSE "undefined",
     movement_cooldown |-> IF type.is_actor THEN 0 ELSE UndefN,
     toolbelt |-> <<>>,
     has_toolbelt |-> type.has_inventory,
     previous_cell |-> UndefCell,
     animation_progress |-> UndefN,
     animation_speed |-> UndefN,
     stuck |-> "undefined",
     pending_push |-> "undefined",
     secondary_direction |-> "undefined",
     last_move_was_force |-> "undefined",
     pending_reverse |-> "undefined",
     decision |-> "undefined",
     is_blocked |-> "undefined",
     is_pushing |-> "undefined",
     fail_reason |-> "undefined",
     wire_directions |-> UndefN,
     wire_tunnel_directions |-> UndefN,
     emitting_edges |-> 0]

\* a slot of the tile store that holds no object yet
FreeTile == [NewTile("none", "south") EXCEPT !.type = "free"]

\* Tile.from_template: the constructor, then the template's own properties
from_template(tile_template) ==
    [NewTile(tile_template.type, tile_template.direction)
        EXCEPT !.stuck = tile_template.stuck,
               !.wire_directions = tile_template.wire_directions,
               !.wire_tunnel_directions = tile_template.wire_tunnel_directions]

TypeOf(L, t) == TILE_TYPES(L.tile[t].type)

\* Tile.blocks(other, direction, level)
blocks(L, t, other, direction) ==
    LET type == TypeOf(L, t)
        otype == TypeOf(L, other)
    IN  \/ type.blocks_all
        \/ DIRECTIONS[direction].opposite \in type.thin_walls
        \/ otype.is_player /\ type.blocks_players
        \/ otype.is_monster /\ type.blocks_monsters
        \/ otype.is_block /\ type.blocks_blocks

\* Tile.ignores(name)
ignores(L, t, name) ==
    \/ name \in TypeOf(L, t).ignores
    \/ /\ L.tile[t].has_toolbelt
       /\ \E i \in 1..Len(L.tile[t].toolbelt) :
              name \in TILE_TYPES(L.tile[t].toolbelt[i]).item_ignores

\* Tile.can_push(tile, direction)
can_push(L, t, tile, direction) ==
    /\ L.tile[tile].type \in TypeOf(L, t).pushes
    /\ L.tile[tile].stuck # "true"

\* Tile.has_item(name) for a tool: undefined without a toolbelt
has_item(L, t, name) ==
    IF ~L.tile[t].has_toolbelt THEN UndefN
    ELSE IF \E i \in 1..Len(L.tile[t].toolbelt) : L.tile[t].toolbelt[i] = name
         THEN TrueN ELSE FalseN

----------------------------------------------------------------------------
(* Sequence helpers (Array.prototype) *)

\* indexOf: the 0-based index of the first occurrence, or -1
IndexOf(seq, x) ==
    IF \E i \in 1..Len(seq) : seq[i] = x
    THEN (CHOOSE i \in 1..Len(seq) : seq[i] = x /\ \A j \in 1..(i - 1) : seq[j] # x) - 1
    ELSE -1

\* splice(index, 0, x) with a 0-based index (clamped to the length, as splice does)
SpliceIn(seq, index, x) ==
    LET i == Min(index, Len(seq)) IN
    SubSeq(seq, 1, i) \o <<x>> \o SubSeq(seq, i + 1, Len(seq))

\* splice(index, 1) with a 0-based index
SpliceOut(seq, index) ==
    SubSeq(seq, 1, index) \o SubSeq(seq, index + 2, Len(seq))

\* pop(): the array without its last element (an empty array stays empty)
Pop(seq) == IF Len(seq) = 0 THEN seq ELSE SubSeq(seq, 1, Len(seq) - 1)

----------------------------------------------------------------------------
(* Exceptions *)

Throw(L, what) == IF L.thrown # "none" THEN L ELSE [L EXCEPT !.thrown = what]

----------------------------------------------------------------------------
(* Cell (src/js/game.js, class Cell): level.cells[c] is the cell's array of  *)
(* tiles, bottom first                                                      *)

\* Cell._add(tile, index)
Cell_add(L, c, t, index) ==
    IF L.thrown # "none" THEN L
    ELSE [L EXCEPT !.cells[c] = IF index = NullN THEN Append(@, t)
                                ELSE SpliceIn(@, index, t),
                   !.tile[t].cell = c]

\* _remove that clears the tile's reference before it looks for the tile
Cell_remove_unlinks_first(L, c, t) ==
    IF L.thrown # "none" THEN L
    ELSE LET index == IndexOf(L.cells[c], t) IN
         IF index < 0 THEN Throw([L EXCEPT !.tile[t].cell = NullCell], "Error")
         ELSE [L EXCEPT !.cells[c] = SpliceOut(@, index),
                        !.tile[t].cell = NullCell,
                        !.ret = index]

\* _remove that leaves the tile's reference to the cell in place
Cell_remove_keeps_cell(L, c, t) ==
    IF L.thrown # "none" THEN L
    ELSE LET index == IndexOf(L.cells[c], t) IN
         IF index < 0 THEN Throw(L, "Error")
         ELSE [L EXCEPT !.cells[c] = SpliceOut(@, index),
                        !.ret = index]

\* Cell._remove(tile): returns the index (in L.ret)
Cell_remove(L, c, t) ==
    IF L.thrown # "none" THEN L
    ELSE LET index == IndexOf(L.cells[c], t) IN
         IF index < 0 THEN Throw(L, "Error")
         ELSE [L EXCEPT !.cells[c] = SpliceOut(@, index),
                        !.tile[t].cell = NullCell,
                        !.ret = index]

\* Cell.blocks_leaving(actor, direction)
blocks_leaving(L, c, actor, direction) ==
    \E i \in 1..Len(L.cells[c]) :
        /\ L.cells[c][i] # actor
        /\ direction \in TypeOf(L, L.cells[c][i]).thin_walls

\* Cell.blocks_entering(actor, direction, level, ignore_pushables)
blocks_entering(L, c, actor, direction, ignore_pushables) ==
    \E i \in 1..Len(L.cells[c]) :
        /\ blocks(L, L.cells[c][i], actor, direction)
        /\ ~(ignore_pushables /\ can_push(L, actor, L.cells[c][i], direction))

----------------------------------------------------------------------------
(* Board inspection *)

CellX(L, c) == (c - 1) % L.width
CellY(L, c) == (c - 1) \div L.width
CellAt(L, x, y) == y * L.width + x + 1

is_point_within_bounds(L, x, y) ==
    x >= 0 /\ x < L.width /\ y >= 0 /\ y < L.height

\* Level.get_neighboring_cell(cell, direction): NullCell off the grid
get_neighboring_cell(L, c, direction) ==
    LET move == DIRECTIONS[direction].movement
        goal_x == CellX(L, c) + move[1]
        goal_y == CellY(L, c) + move[2]
    IN  IF is_point_within_bounds(L, goal_x, goal_y)
        THEN CellAt(L, goal_x, goal_y)
        ELSE NullCell

----------------------------------------------------------------------------
(* The undo log.  A closure pushed on pending_undo is a record: what it     *)
(* restores (k), on which tile (t) or cell (c) or field (f), and the values *)
(* it captured (v, w).                                                      *)

UndoOp(k, t, c, f, v, w) == [k |-> k, t |-> t, c |-> c, f |-> f, v |-> v, w |-> w]

PushUndo(L, op) == [L EXCEPT !.pending_undo = Append(@, op)]

\* Level._set_prop(obj, key, val) on a tile
set_prop(L, t, key, val) ==
    IF L.thrown # "none" THEN L
    ELSE IF val = L.tile[t][key] THEN L
    ELSE [PushUndo(L, UndoOp("tile_field", t, 0, key, L.tile[t][key], 0))
            EXCEPT !.tile[t][key] = val]

\* Level._set_prop(this, key, val) on the level itself
set_level_prop(L, key, val) ==
    IF L.thrown # "none" THEN L
    ELSE IF val = L[key] THEN L
    ELSE [PushUndo(L, UndoOp("level_field", 0, 0, key, L[key], 0))
            EXCEPT ![key] = val]

\* Running one recorded closure
RunUndo(L, op) ==
    CASE op.k = "tile_field" -> [L EXCEPT !.tile[op.t][op.f] = op.v]
      [] op.k = "level_field" -> [L EXCEPT ![op.f] = op.v]
      [] op.k = "rng" -> [L EXCEPT !.rng1 = op.v, !.rng2 = op.w]
      [] op.k = "cell_add" -> Cell_add(L, op.c, op.t, op.v)
      [] op.k = "cell_remove" -> Cell_remove(L, op.c, op.t)
      [] op.k = "actors_splice" -> [L EXCEPT !.actors = SpliceIn(@, op.v, op.t)]
      [] op.k = "actors_pop" -> [L EXCEPT !.actors = Pop(@)]
      [] op.k = "toolbelt_pop" -> [L EXCEPT !.tile[op.t].toolbelt = Pop(@)]
      [] op.k = "unspawn" -> Cell_remove([L EXCEPT !.actors = Pop(@)], op.c, op.t)
      [] op.k = "clock" -> [L EXCEPT !.tic_counter = op.v]
      [] op.k = "clock_time" -> [L EXCEPT !.tic_counter = op.v, !.time_remaining = op.w]
      [] op.k = "pause" ->
            [L EXCEPT !.timer_paused = ~@]
      [] op.k = "fail" ->
            [L EXCEPT !.state = "playing", !.fail_reason = "null",
                      !.tile[L.player].fail_reason = "null"]
      [] op.k = "win" -> [L EXCEPT !.state = "playing"]

\* the loop of Level.undo over the reversed entry
RECURSIVE RunEntry(_, _, _)
RunEntry(L, entry, i) ==
    IF i = 0 \/ L.thrown # "none" THEN L
    ELSE RunEntry(RunUndo(L, entry[i]), entry, i - 1)

\* commit() without the limit on the stack
commit_unbounded(L) ==
    [L EXCEPT !.pending_undo = <<>>,
              !.undo_stack = Append(L.undo_stack, L.pending_undo)]

\* Level.commit()
commit(L) ==
    LET pushed == Append(L.undo_stack, L.pending_undo) IN
    [L EXCEPT !.pending_undo = <<>>,
              !.undo_stack =
                  IF Len(pushed) > UndoCap
                  THEN SubSeq(pushed, Len(pushed) - UndoCap + 1, Len(pushed))
                  ELSE pushed]

\* Level.undo(): popping an empty stack gives undefined, and undefined.reverse()
\* is a TypeError
undo(L) ==
    LET L1 == [L EXCEPT !.aid = Max(1, L.aid)] IN
    IF Len(L.undo_stack) = 0 THEN Throw(L1, "Error")
    ELSE LET entry == L.undo_stack[Len(L.undo_stack)]
             L2 == [L1 EXCEPT !.undo_stack = Pop(@)]
         IN  RunEntry(L2, entry, Len(entry))

----------------------------------------------------------------------------
(* Stored levels: the static level descriptions the engine is started on    *)

Tpl(type, direction) ==
    [type |-> type, direction |-> direction, stuck |-> "undefined",
     wire_directions |-> UndefN, wire_tunnel_directions |-> UndefN]

\* a template of a tile that carries wires on the edges of the bitmask
Wired(type, wire_directions) ==
    [Tpl(type, "south") EXCEPT !.wire_directions = wire_directions]

\* a template of a tile whose wires go into a tunnel on some of the edges
Tunnelled(type, wire_directions, wire_tunnel_directions) ==
    [Wired(type, wire_directions)
        EXCEPT !.wire_tunnel_directions = wire_tunnel_directions]

\* one cell of a stored level: floor, then the given tiles
OnFloor(tiles) == <<Tpl("floor", "south")>> \o tiles

\* 3x2, untimed: a block to push onto a bomb, a chip and the exit
PushLevel ==
    [size_x |-> 3, size_y |-> 2, chips_required |-> 1, time_limit |-> 0,
     blob_behavior |-> 0, number |-> 1, spare_tiles |-> 1,
     linear_cells |-> <<
        OnFloor(<<Tpl("player", "south")>>),
        OnFloor(<<Tpl("dirt_block", "south")>>),
        OnFloor(<<Tpl("bomb", "south")>>),
        OnFloor(<<Tpl("chip", "south")>>),
        OnFloor(<<Tpl("exit", "south")>>),
        <<Tpl("wall", "south")>> >>]

\* 2x2, timed: a blob in the corner opposite the player, blob mode "4 patterns"
BlobLevel ==
    [size_x |-> 2, size_y |-> 2, chips_required |-> 0, time_limit |-> 1,
     blob_behavior |-> 1, number |-> 2, spare_tiles |-> 0,
     linear_cells |-> <<
        OnFloor(<<Tpl("player", "south")>>),
        OnFloor(<<>>),
        OnFloor(<<>>),
        OnFloor(<<Tpl("blob", "north")>>) >>]

\* 4x1, untimed: a block to push into a trap, and a cloner holding a blob
TrapLevel ==
    [size_x |-> 4, size_y |-> 1, chips_required |-> 0, time_limit |-> 0,
     blob_behavior |-> 0, number |-> 3, spare_tiles |-> 0,
     linear_cells |-> <<
        OnFloor(<<Tpl("player", "south")>>),
        OnFloor(<<Tpl("dirt_block", "south")>>),
        OnFloor(<<Tpl("trap", "south")>>),
        <<Tpl("cloner", "south"), Tpl("blob", "west")>> >>]

\* 1x1: nothing but the player
IdleLevel(blob_behavior, time_limit) ==
    [size_x |-> 1, size_y |-> 1, chips_required |-> 0, time_limit |-> time_limit,
     blob_behavior |-> blob_behavior, number |-> 4, spare_tiles |-> 0,
     linear_cells |-> << OnFloor(<<Tpl("player", "south")>>) >>]

\* 4x2, untimed: a block on a trap next to a button; the button's wires lead
\* west to the trap and south into a circuit of a corner, a four-way crossing
\* and a wire end; the wire of the last cell is connected to nothing
WireLevel ==
    [size_x |-> 4, size_y |-> 2, chips_required |-> 0, time_limit |-> 0,
     blob_behavior |-> 0, number |-> 6, spare_tiles |-> 0,
     linear_cells |-> <<
        OnFloor(<<Tpl("player", "south")>>),
        OnFloor(<<Tpl("trap", "south"), Tpl("dirt_block", "south")>>),
        OnFloor(<<Wired("button_pink", 12)>>),
        OnFloor(<<>>),
        <<Wired("floor", 2)>>,
        <<Wired("floor", 15)>>,
        <<Wired("floor", 9)>>,
        <<Wired("floor", 1)>> >>]

\* 4x1, untimed: three blocks around the player, which is third in the roster
RosterLevel ==
    [size_x |-> 4, size_y |-> 1, chips_required |-> 0, time_limit |-> 0,
     blob_behavior |-> 0, number |-> 7, spare_tiles |-> 0,
     linear_cells |-> <<
        OnFloor(<<Tpl("dirt_block", "south")>>),
        OnFloor(<<Tpl("dirt_block", "south")>>),
        OnFloor(<<Tpl("player", "south")>>),
        OnFloor(<<Tpl("dirt_block", "south")>>) >>]

\* 2x1: the player next to the exit
ExitLevel(time_limit) ==
    [size_x |-> 2, size_y |-> 1, chips_required |-> 0, time_limit |-> time_limit,
     blob_behavior |-> 0, number |-> 5, spare_tiles |-> 0,
     linear_cells |-> <<
        OnFloor(<<Tpl("player", "south")>>),
        OnFloor(<<Tpl("exit", "south")>>) >>]

\* 2x2, untimed: a teeth in the corner opposite the player
PursuitLevel ==
    [size_x |-> 2, size_y |-> 2, chips_required |-> 0, time_limit |-> 0,
     blob_behavior |-> 0, number |-> 8, spare_tiles |-> 0,
     linear_cells |-> <<
        OnFloor(<<Tpl("teeth", "south")>>),
        OnFloor(<<>>),
        OnFloor(<<>>),
        OnFloor(<<Tpl("player", "south")>>) >>]

\* 5x1, untimed: a teeth with two cells of ice between it and the player
IceTeethLevel ==
    [size_x |-> 5, size_y |-> 1, chips_required |-> 0, time_limit |-> 0,
     blob_behavior |-> 0, number |-> 9, spare_tiles |-> 0,
     linear_cells |-> <<
        OnFloor(<<Tpl("teeth", "south")>>),
        <<Tpl("ice", "south")>>,
        <<Tpl("ice", "south")>>,
        OnFloor(<<>>),
        OnFloor(<<Tpl("player", "south")>>) >>]

\* 3x1, untimed: a walker facing the edge of the grid
WalkerLevel ==
    [size_x |-> 3, size_y |-> 1, chips_required |-> 0, time_limit |-> 0,
     blob_behavior |-> 0, number |-> 10, spare_tiles |-> 0,
     linear_cells |-> <<
        OnFloor(<<Tpl("walker", "west")>>),
        OnFloor(<<>>),
        OnFloor(<<Tpl("player", "south")>>) >>]

\* 3x2, untimed: a bug in a dead end and a fireball closed in by a wall, the
\* edge of the grid and a thin wall on the south edge of its own cell
MazeLevel ==
    [size_x |-> 3, size_y |-> 2, chips_required |-> 0, time_limit |-> 0,
     blob_behavior |-> 0, number |-> 11, spare_tiles |-> 0,
     linear_cells |-> <<
        OnFloor(<<Tpl("bug", "north")>>),
        <<Tpl("wall", "south")>>,
        OnFloor(<<Tpl("thinwall_s", "south"), Tpl("fireball", "west")>>),
        OnFloor(<<>>),
        OnFloor(<<Tpl("player", "south")>>),
        OnFloor(<<>>) >>]

\* 3x2, untimed: a block between the player and a run of force floors that
\* leads south, then west, back under the cell the block started in
ForceLevel ==
    [size_x |-> 3, size_y |-> 2, chips_required |-> 0, time_limit |-> 0,
     blob_behavior |-> 0, number |-> 12, spare_tiles |-> 0,
     linear_cells |-> <<
        OnFloor(<<Tpl("player", "south")>>),
        OnFloor(<<Tpl("dirt_block", "south")>>),
        <<Tpl("force_floor_s", "south")>>,
        OnFloor(<<>>),
        <<Tpl("force_floor_w", "south")>>,
        <<Tpl("force_floor_w", "south")>> >>]

\* 3x2, untimed: the player next to a force floor that leads east, onto one
\* that leads south
OverrideLevel ==
    [size_x |-> 3, size_y |-> 2, chips_required |-> 0, time_limit |-> 0,
     blob_behavior |-> 0, number |-> 13, spare_tiles |-> 0,
     linear_cells |-> <<
        OnFloor(<<Tpl("player", "south")>>),
        <<Tpl("force_floor_e", "south")>>,
        <<Tpl("force_floor_s", "south")>>,
        OnFloor(<<>>),
        OnFloor(<<>>),
        OnFloor(<<>>) >>]

\* 3x2, untimed: cleats between the player and a cell of ice
CleatsLevel ==
    [size_x |-> 3, size_y |-> 2, chips_required |-> 0, time_limit |-> 0,
     blob_behavior |-> 0, number |-> 14, spare_tiles |-> 0,
     linear_cells |-> <<
        OnFloor(<<Tpl("player", "south")>>),
        OnFloor(<<Tpl("cleats", "south")>>),
        <<Tpl("ice", "south")>>,
        OnFloor(<<>>),
        OnFloor(<<>>),
        <<Tpl("ice", "south")>> >>]

\* 5x2, untimed: two buttons held down, each with a wire that goes into a
\* tunnel on its east edge.  In the first row the next cell opens a tunnel of
\* its own to the east, the third cell has the nearest tunnel end facing west
\* and a wire that stops there, the fourth has another; in the second row no
\* cell has a tunnel end facing west
TunnelLevel ==
    [size_x |-> 5, size_y |-> 2, chips_required |-> 0, time_limit |-> 0,
     blob_behavior |-> 0, number |-> 15, spare_tiles |-> 0,
     linear_cells |-> <<
        OnFloor(<<Tunnelled("button_pink", 2, 2), Tpl("player", "south")>>),
        <<Tunnelled("floor", 10, 2)>>,
        <<Tunnelled("floor", 8, 8)>>,
        <<Tunnelled("floor", 10, 8)>>,
        <<Wired("floor", 8)>>,
        OnFloor(<<Tunnelled("button_pink", 2, 2), Tpl("dirt_block", "south")>>),
        <<Wired("floor", 10)>>,
        <<Tunnelled("floor", 10, 2)>>,
        OnFloor(<<>>),
        OnFloor(<<>>) >>]

\* 3x2, untimed: a button held down that feeds a ring of four wires; the
\* unwired cell in the corner is next to the button and to the ring
LoopLevel ==
    [size_x |-> 3, size_y |-> 2, chips_required |-> 0, time_limit |-> 0,
     blob_behavior |-> 0, number |-> 16, spare_tiles |-> 0,
     linear_cells |-> <<
        <<Wired("floor", 6)>>,
        <<Wired("floor", 14)>>,
        OnFloor(<<Wired("button_pink", 12), Tpl("player", "south")>>),
        <<Wired("floor", 3)>>,
        <<Wired("floor", 11)>>,
        OnFloor(<<>>) >>]

\* 3x2, untimed: two buttons held down, on either side of a four-way
\* crossing; the first also has a wire to the unwired cell south of it
TwinLevel ==
    [size_x |-> 3, size_y |-> 2, chips_required |-> 0, time_limit |-> 0,
     blob_behavior |-> 0, number |-> 17, spare_tiles |-> 0,
     linear_cells |-> <<
        OnFloor(<<Wired("button_pink", 6), Tpl("player", "south")>>),
        <<Wired("floor", 15)>>,
        OnFloor(<<Wired("button_pink", 8), Tpl("dirt_block", "south")>>),
        OnFloor(<<>>),
        OnFloor(<<>>),
        OnFloor(<<>>) >>]

\* 2x1, untimed: a button held down in the corner, with a wire to the cell
\* east of it and a wire to the west edge of the grid
BorderLevel ==
    [size_x |-> 2, size_y |-> 1, chips_required |-> 0, time_limit |-> 0,
     blob_behavior |-> 0, number |-> 18, spare_tiles |-> 0,
     linear_cells |-> <<
        OnFloor(<<Wired("button_pink", 10), Tpl("player", "south")>>),
        <<Wired("floor", 8)>> >>]

\* 3x1, untimed: a button held down and a straight wire that runs on to the
\* east edge of the grid
EdgeWireLevel ==
    [size_x |-> 3, size_y |-> 1, chips_required |-> 0, time_limit |-> 0,
     blob_behavior |-> 0, number |-> 19, spare_tiles |-> 0,
     linear_cells |-> <<
        OnFloor(<<Wired("button_pink", 2), Tpl("player", "south")>>),
        <<Wired("floor", 10)>>,
        <<Wired("floor", 10)>> >>]

\* 4x2, untimed: three blue teleporters, the last with a block on it
BlueLevel ==
    [size_x |-> 4, size_y |-> 2, chips_required |-> 0, time_limit |-> 0,
     blob_behavior |-> 0, number |-> 20, spare_tiles |-> 0,
     linear_cells |-> <<
        OnFloor(<<Tpl("player", "south")>>),
        OnFloor(<<Tpl("teleport_blue", "south")>>),
        OnFloor(<<>>),
        <<Tpl("wall", "south")>>,
        OnFloor(<<>>),
        OnFloor(<<Tpl("teleport_blue", "south")>>),
        OnFloor(<<>>),
        OnFloor(<<Tpl("teleport_blue", "south"), Tpl("dirt_block", "south")>>) >>]

\* 3x2, untimed: two blue teleporters, each with a wall east of it
WalledLevel ==
    [size_x |-> 3, size_y |-> 2, chips_required |-> 0, time_limit |-> 0,
     blob_behavior |-> 0, number |-> 21, spare_tiles |-> 0,
     linear_cells |-> <<
        OnFloor(<<Tpl("player", "south")>>),
        OnFloor(<<Tpl("teleport_blue", "south")>>),
        <<Tpl("wall", "south")>>,
        OnFloor(<<>>),
        OnFloor(<<Tpl("teleport_blue", "south")>>),
        <<Tpl("wall", "south")>> >>]

\* 4x2, untimed: two red teleporters; the one in the corner has a wall to
\* its east and a free cell to its north
RedLevel ==
    [size_x |-> 4, size_y |-> 2, chips_required |-> 0, time_limit |-> 0,
     blob_behavior |-> 0, number |-> 22, spare_tiles |-> 0,
     linear_cells |-> <<
        OnFloor(<<>>),
        <<Tpl("wall", "south")>>,
        OnFloor(<<>>),
        OnFloor(<<Tpl("player", "south")>>),
        OnFloor(<<Tpl("teleport_red", "south")>>),
        <<Tpl("wall", "south")>>,
        OnFloor(<<>>),
        OnFloor(<<Tpl("teleport_red", "south")>>) >>]

\* the same with a block north of the teleporter in the corner, which
\* nothing can push away
RedBlockedLevel ==
    [size_x |-> 4, size_y |-> 2, chips_required |-> 0, time_limit |-> 0,
     blob_behavior |-> 0, number |-> 23, spare_tiles |-> 0,
     linear_cells |-> <<
        OnFloor(<<Tpl("dirt_block", "south")>>),
        <<Tpl("wall", "south")>>,
        OnFloor(<<>>),
        OnFloor(<<Tpl("player", "south")>>),
        OnFloor(<<Tpl("teleport_red", "south")>>),
        <<Tpl("wall", "south")>>,
        OnFloor(<<>>),
        OnFloor(<<Tpl("teleport_red", "south")>>) >>]

RECURSIVE SumLen(_, _)
SumLen(cells, n) == IF n = 0 THEN 0 ELSE Len(cells[n]) + SumLen(cells, n - 1)

----------------------------------------------------------------------------
(* Level (src/js/game.js, class Level) *)

\* the inner loop of restart: template k of stored cell n becomes a tile
RECURSIVE RestartTiles(_, _, _, _, _)
RestartTiles(L, stored, n, k, has_cloner) ==
    IF n > Len(stored.linear_cells) THEN L
    ELSE IF k > Len(stored.linear_cells[n]) THEN RestartTiles(L, stored, n + 1, 1, FALSE)
    ELSE
        LET template == stored.linear_cells[n][k]
            type == TILE_TYPES(template.type)
            id == L.ntiles + 1
            cloner == has_cloner \/ template.type = "cloner"
            made == from_template(template)
            tile == IF type.is_actor /\ cloner THEN [made EXCEPT !.stuck = "true"] ELSE made
            L1 == [L EXCEPT !.ntiles = id,
                            !.tile[id] = tile,
                            !.player = IF type.is_player THEN id ELSE @,
                            !.power_sources = IF type.is_power_source THEN Append(@, id) ELSE @,
                            !.actors = IF type.is_actor /\ tile.stuck # "true"
                                       THEN Append(@, id) ELSE @]
        IN  RestartTiles(Cell_add(L1, n, id, NullN), stored, n, k + 1, cloner)

\* Level.restart(compat); random is the value Math.floor(Math.random() * 256)
restart(stored, tiles_react_instantly, random) ==
    LET ncells == stored.size_x * stored.size_y
        ntiles == SumLen(stored.linear_cells, ncells) + stored.spare_tiles
        L0 == [stored_level |-> stored,
               width |-> stored.size_x,
               height |-> stored.size_y,
               compat_tiles_react_instantly |-> tiles_react_instantly,
               state |-> "playing",
               cells |-> [c \in 1..ncells |-> <<>>],
               powered_edges |-> [c \in 1..ncells |-> 0],
               prev_powered_edges |-> [c \in 1..ncells |-> 0],
               player |-> 0,
               actors |-> <<>>,
               chips_remaining |-> stored.chips_required,
               bonus_points |-> 0,
               aid |-> 0,
               time_remaining |-> IF stored.time_limit = 0 THEN NullN
                                  ELSE stored.time_limit * 20,
               timer_paused |-> FALSE,
               tic_counter |-> 0,
               step_parity |-> 5,
               hint_shown |-> "null",
               force_floor_direction |-> "north",
               rng1 |-> 0,
               rng2 |-> 0,
               blob_modifier |-> IF stored.blob_behavior = 0 THEN InitialBlobModifier
                                 ELSE random,
               undo_stack |-> <<>>,
               pending_undo |-> <<>>,
               power_sources |-> <<>>,
               fail_reason |-> "undefined",
               player_leaving_cell |-> UndefCell,
               tile |-> [t \in 1..ntiles |-> FreeTile],
               ntiles |-> 0,
               cell_steppers |-> <<>>,
               visited |-> <<>>,
               tried |-> <<>>,
               thrown |-> "none",
               ret |-> 0]
    IN  RestartTiles(L0, stored, 1, 1, FALSE)

----------------------------------------------------------------------------
(* Pseudo-random numbers *)

\* prng() without the decrement of n when bit 1 of the first register is clear
prng_no_decrement(L) ==
    IF L.thrown # "none" THEN L
    ELSE
        LET L1 == PushUndo(L, UndoOp("rng", 0, 0, "", L.rng1, L.rng2))
            n == (L.rng1 \div 4) - L.rng1
            rng1 == BitOr(L.rng1 \div 2, AndMask(L.rng2, 128))
            rng2 == Shl1Or(L.rng2, AndMask(n, 1))
        IN  [L1 EXCEPT !.rng1 = rng1,
                       !.rng2 = rng2,
                       !.ret = BitXor(rng1 % 256, rng2 % 256)]

\* Level.prng(): the returned value is left in L.ret
prng(L) ==
    IF L.thrown # "none" THEN L
    ELSE
        LET L1 == PushUndo(L, UndoOp("rng", 0, 0, "", L.rng1, L.rng2))
            n0 == (L.rng1 \div 4) - L.rng1
            n == IF AndMask(L.rng1, 2) = 0 THEN n0 - 1 ELSE n0
            rng1 == BitOr(L.rng1 \div 2, AndMask(L.rng2, 128))
            rng2 == Shl1Or(L.rng2, AndMask(n, 1))
        IN  [L1 EXCEPT !.rng1 = rng1,
                       !.rng2 = rng2,
                       !.ret = BitXor(rng1 % 256, rng2 % 256)]

\* get_blob_modifier: "4 patterns"
NextPattern(mod) == (mod + 1) % 4

\* get_blob_modifier: the other blob modes
Scramble(mod) == (IF mod * 2 < 255 THEN BitXor(mod * 2, 29) ELSE mod * 2) % 256

\* get_blob_modifier, once the local variable mod holds its last value: the
\* closure pushed on pending_undo refers to that variable, not to the value
\* it had when the closure was made, so it writes back the new value
StoreModifier(L, mod) ==
    [PushUndo(L, UndoOp("level_field", 0, 0, "blob_modifier", mod, 0))
        EXCEPT !.blob_modifier = mod, !.ret = mod]

\* Level.get_blob_modifier(): the returned value is left in L.ret
get_blob_modifier(L) ==
    IF L.thrown # "none" THEN L
    ELSE IF L.stored_level.blob_behavior = 1
    THEN StoreModifier(L, NextPattern(L.blob_modifier))
    ELSE StoreModifier(L, Scramble(L.blob_modifier))

----------------------------------------------------------------------------
(* Level alteration methods: every change goes through one of these and     *)
(* pushes the closure that reverts it                                       *)

\* Level.remove_tile(tile): a tile without a cell has no _remove to call
remove_tile(L, t) ==
    IF L.thrown # "none" THEN L
    ELSE LET cell == L.tile[t].cell IN
         IF cell = NullCell THEN Throw(L, "Error")
         ELSE LET L1 == Cell_remove(L, cell, t) IN
              IF L1.thrown # "none" THEN L1
              ELSE PushUndo(L1, UndoOp("cell_add", t, cell, "", L1.ret, 0))

\* Level.give_actor(actor, name): no type of the registry is a key, so the
\* item is a tool; an actor without a toolbelt gets one
give_actor(L, actor, name) ==
    IF L.thrown # "none" THEN L
    ELSE IF ~TypeOf(L, actor).is_actor THEN [L EXCEPT !.ret = 0]
    ELSE [PushUndo(L, UndoOp("toolbelt_pop", actor, 0, "", 0, 0))
            EXCEPT !.tile[actor].has_toolbelt = TRUE,
                   !.tile[actor].toolbelt = Append(@, name),
                   !.ret = 1]

\* Level.attempt_take(actor, tile)
attempt_take(L, actor, tile) ==
    IF L.thrown # "none" THEN L
    ELSE IF \E i \in 1..Len(L.cells[L.tile[tile].cell]) :
               TypeOf(L, L.cells[L.tile[tile].cell][i]).disables_pickup
    THEN [L EXCEPT !.ret = 0]
    ELSE LET given == give_actor(L, actor, L.tile[tile].type) IN
         IF given.thrown # "none" \/ given.ret = 0 THEN [given EXCEPT !.ret = 0]
         ELSE [remove_tile(given, tile) EXCEPT !.ret = 1]

\* Level.add_tile(tile, cell, index)
add_tile(L, t, c, index) ==
    IF L.thrown # "none" THEN L
    ELSE PushUndo(Cell_add(L, c, t, index), UndoOp("cell_remove", t, c, "", 0, 0))

\* Level.add_actor(actor)
add_actor(L, t) ==
    IF L.thrown # "none" THEN L
    ELSE PushUndo([L EXCEPT !.actors = Append(@, t)], UndoOp("actors_pop", 0, 0, "", 0, 0))

\* new Tile(...): the first slot of the tile store that holds no object
FreeSlot(L) == CHOOSE t \in DOMAIN L.tile :
                  /\ L.tile[t].type = "free"
                  /\ \A u \in DOMAIN L.tile : L.tile[u].type = "free" => t <= u

\* Level.spawn_animation(cell, name)
spawn_animation(L, c, name) ==
    IF L.thrown # "none" THEN L
    ELSE LET t == FreeSlot(L)
             L1 == [L EXCEPT !.tile[t] = NewTile(name, "south"),
                             !.ntiles = Max(@, t)]
             L2 == set_prop(L1, t, "animation_speed", TILE_TYPES(name).ttl)
             L3 == set_prop(L2, t, "animation_progress", 0)
             L4 == Cell_add(L3, c, t, NullN)
         IN  PushUndo([L4 EXCEPT !.actors = Append(@, t)],
                      UndoOp("unspawn", t, c, "", 0, 0))

\* Level.make_slide(actor, mode)
make_slide(L, t, mode) ==
    IF L.thrown # "none" THEN L
    ELSE [PushUndo(L, UndoOp("tile_field", t, 0, "slide_mode", L.tile[t].slide_mode, 0))
            EXCEPT !.tile[t].slide_mode = mode]

\* Level.set_actor_direction(actor, direction)
set_actor_direction(L, t, direction) ==
    IF L.thrown # "none" THEN L
    ELSE [PushUndo(L, UndoOp("tile_field", t, 0, "direction", L.tile[t].direction, 0))
            EXCEPT !.tile[t].direction = direction]

\* Level.set_actor_stuck(actor, is_stuck)
set_actor_stuck(L, t, is_stuck) ==
    IF L.thrown # "none" THEN L
    ELSE IF L.tile[t].stuck = is_stuck THEN L
    ELSE [PushUndo(L, UndoOp("tile_field", t, 0, "stuck", L.tile[t].stuck, 0))
            EXCEPT !.tile[t].stuck = is_stuck]

\* Level.collect_chip()
collect_chip(L) ==
    IF L.thrown # "none" THEN L
    ELSE IF L.chips_remaining > 0
    THEN [PushUndo(L, UndoOp("level_field", 0, 0, "chips_remaining", L.chips_remaining, 0))
            EXCEPT !.chips_remaining = @ - 1]
    ELSE L

\* Level.fail(reason)
fail(L, reason) ==
    IF L.thrown # "none" THEN L
    ELSE Throw([PushUndo(L, UndoOp("fail", 0, 0, "", 0, 0))
                  EXCEPT !.state = "failure",
                         !.fail_reason = reason,
                         !.tile[L.player].fail_reason = reason],
               "GameEnded")

\* Level.win()
win(L) ==
    IF L.thrown # "none" THEN L
    ELSE Throw([PushUndo(L, UndoOp("win", 0, 0, "", 0, 0)) EXCEPT !.state = "success"],
               "GameEnded")

\* Level.pause_timer()
pause_timer(L) ==
    IF L.thrown # "none" THEN L
    ELSE IF L.time_remaining = NullN THEN L
    ELSE [PushUndo(L, UndoOp("pause", 0, 0, "", 0, 0)) EXCEPT !.timer_paused = ~@]

\* adjust_timer(dt) leaving an untimed level as it is
adjust_timer_skips_untimed(L, dt) ==
    IF L.thrown # "none" THEN L
    ELSE IF L.time_remaining = NullN THEN L
    ELSE LET L1 == PushUndo(L, UndoOp("level_field", 0, 0, "time_remaining",
                                      L.time_remaining, 0))
             time == Max(0, L.time_remaining + dt * 20)
         IN  IF time <= 0
             THEN IF L.timer_paused
                  THEN [L1 EXCEPT !.time_remaining = 1]
                  ELSE fail([L1 EXCEPT !.time_remaining = time], "time")
             ELSE [L1 EXCEPT !.time_remaining = time]

\* adjust_timer(dt) that leaves a paused timer at 0
adjust_timer_paused_zero(L, dt) ==
    IF L.thrown # "none" THEN L
    ELSE LET L1 == PushUndo(L, UndoOp("level_field", 0, 0, "time_remaining",
                                      L.time_remaining, 0))
             current == IF L.time_remaining = NullN THEN 0 ELSE L.time_remaining
             time == Max(0, current + dt * 20)
         IN  IF time <= 0 /\ ~L.timer_paused
             THEN fail([L1 EXCEPT !.time_remaining = time], "time")
             ELSE [L1 EXCEPT !.time_remaining = time]

\* Level.adjust_timer(dt)
adjust_timer(L, dt) ==
    IF L.thrown # "none" THEN L
    ELSE LET L1 == PushUndo(L, UndoOp("level_field", 0, 0, "time_remaining",
                                      L.time_remaining, 0))
             current == IF L.time_remaining = NullN THEN 0 ELSE L.time_remaining
             time == Max(0, current + dt * 20)
         IN  IF time <= 0
             THEN IF L.timer_paused
                  THEN [L1 EXCEPT !.time_remaining = 1]
                  ELSE fail([L1 EXCEPT !.time_remaining = time], "time")
             ELSE [L1 EXCEPT !.time_remaining = time]

\* Math.ceil(a / b) for a >= 0 and b > 0
CeilDiv(a, b) == (a + b - 1) \div b

\* Level.adjust_bonus(add, mult), for a whole multiplier
adjust_bonus(L, add, mult) ==
    IF L.thrown # "none" THEN L
    ELSE [PushUndo(L, UndoOp("level_field", 0, 0, "bonus_points", L.bonus_points, 0))
            EXCEPT !.bonus_points = L.bonus_points * mult + add]

\* get_scorecard() with the time rounded down
get_scorecard_rounding_down(L) ==
    IF L.state # "success" THEN [L EXCEPT !.ret = NullN]
    ELSE [L EXCEPT !.ret =
            [time |-> (IF L.time_remaining = NullN THEN 0 ELSE L.time_remaining) \div 20,
             abstime |-> L.tic_counter,
             bonus |-> L.bonus_points,
             score |-> L.stored_level.number * 500
                       + ((IF L.time_remaining = NullN THEN 0 ELSE L.time_remaining) \div 20) * 10
                       + L.bonus_points,
             aid |-> L.aid]]

\* Level.get_scorecard(): the scorecard, or NullN, is left in L.ret
get_scorecard(L) ==
    IF L.state # "success" THEN [L EXCEPT !.ret = NullN]
    ELSE [L EXCEPT !.ret =
            [time |-> CeilDiv(IF L.time_remaining = NullN THEN 0 ELSE L.time_remaining, 20),
             abstime |-> L.tic_counter,
             bonus |-> L.bonus_points,
             score |-> L.stored_level.number * 500
                       + CeilDiv(IF L.time_remaining = NullN THEN 0 ELSE L.time_remaining, 20) * 10
                       + L.bonus_points,
             aid |-> L.aid]]

\* Level.get_force_floor_direction(): the direction is left in L.ret; the
\* assignment of the next direction is not recorded in pending_undo
get_force_floor_direction(L) ==
    IF L.thrown # "none" THEN L
    ELSE [L EXCEPT !.force_floor_direction = DIRECTIONS[L.force_floor_direction].right,
                   !.ret = L.force_floor_direction]

----------------------------------------------------------------------------
(* Method calls.  The methods of the engine call one another (a step moves  *)
(* a tile, which steps on a cell, whose tiles react, which may move other   *)
(* tiles); such a call is written Invoke(L, "method", <<arguments>>).       *)

RECURSIVE Invoke(_, _, _)

----------------------------------------------------------------------------
(* Behaviour hooks of the tile types (tiletypes.js) *)

\* the bomb, once it has removed itself
Explode(L, other, cell, is_player) ==
    IF is_player THEN fail(L, "exploded")
    ELSE spawn_animation(remove_tile(L, other), cell, "explosion")

\* type.on_arrive(me, level, other)
on_arrive(L, me, other) ==
    IF L.thrown # "none" THEN L
    ELSE LET name == L.tile[me].type
             is_player == L.tile[other].type = "player"
         IN
         CASE name = "exit" -> IF is_player THEN win(L) ELSE L
           [] name = "chip" ->
                IF is_player THEN remove_tile(collect_chip(L), me) ELSE L
           [] name = "trap" -> set_actor_stuck(L, other, "true")
           [] name = "bomb" ->
                Explode(remove_tile(L, me), other, L.tile[me].cell, is_player)
           [] name \in ForceFloors ->
                set_actor_direction(L, other, ForceFloorDirection(name))
           [] OTHER -> L

----------------------------------------------------------------------------
(* Step resolution *)

\* step_on_cell, one tile that is neither taken nor ignored: a teleporter is
\* kept for later, any other tile reacts to the arrival
ArriveOn(acc, L, actor, tile) ==
    IF TypeOf(L, tile).has_teleport_dest_order
    THEN [L |-> L, teleporter |-> tile]
    ELSE IF TypeOf(L, tile).has_on_arrive
    THEN [acc EXCEPT !.L = Invoke(L, "on_arrive", <<tile, actor>>)]
    ELSE [acc EXCEPT !.L = L]

\* step_on_cell, one item, after the attempt to take it
AfterTake(acc, taken, actor, tile) ==
    IF taken.thrown # "none" \/ taken.ret = 1 THEN [acc EXCEPT !.L = taken]
    ELSE ArriveOn(acc, taken, actor, tile)

\* step_on_cell, one tile of the cell
StepOnTile(acc, actor, tile) ==
    IF tile = actor \/ ignores(acc.L, actor, acc.L.tile[tile].type) THEN acc
    ELSE IF TypeOf(acc.L, tile).is_item /\ TypeOf(acc.L, actor).is_player
    THEN AfterTake(acc, attempt_take(acc.L, actor, tile), actor, tile)
    ELSE ArriveOn(acc, acc.L, actor, tile)

\* the loop of step_on_cell over a copy of the cell; acc carries the level
\* and the teleporter found so far (0 for none)
RECURSIVE StepOnTiles(_, _, _, _, _)
StepOnTiles(acc, actor, cell, tiles, i) ==
    IF i > Len(tiles) \/ acc.L.thrown # "none" THEN acc
    ELSE StepOnTiles(StepOnTile(acc, actor, tiles[i]), actor, cell, tiles, i + 1)

\* the cell a position of the reading order stands for, wrapping around
WrapCell(L, n) == (n % (L.width * L.height)) + 1

\* type.teleport_dest_order(teleporter, level, actor): the other teleporters
\* of the type, searched from the teleporter's cell (backwards in reading
\* order for the blue kind, forwards for the red) and around the grid, then
\* the teleporter itself
RECURSIVE DestsFrom(_, _, _)
DestsFrom(L, teleporter, k) ==
    IF k >= L.width * L.height THEN <<teleporter>>
    ELSE LET home == L.tile[teleporter].cell
             c == IF L.tile[teleporter].type = "teleport_red"
                  THEN WrapCell(L, home - 1 + k)
                  ELSE WrapCell(L, home - 1 + L.width * L.height - k)
         IN  SelectSeq(L.cells[c], LAMBDA t : L.tile[t].type = L.tile[teleporter].type)
                \o DestsFrom(L, teleporter, k + 1)

teleport_dest_order(L, teleporter, actor) == DestsFrom(L, teleporter, 1)

\* the other actors in the cell of a destination
OtherActors(L, dest, actor) ==
    {t \in DOMAIN L.tile :
        /\ \E i \in 1..Len(L.cells[L.tile[dest].cell]) : L.cells[L.tile[dest].cell][i] = t
        /\ TypeOf(L, t).is_actor
        /\ t # actor}

\* what became of one destination of a teleport
Tried(L, actor, dest, others, outcome) ==
    [L EXCEPT !.tried = Append(@, [actor |-> actor, dest |-> dest, others |-> others,
                                   outcome |-> outcome])]

\* teleporting: the steps out of a destination, one direction after the
\* other; L.ret tells whether one succeeded
RECURSIVE TryExits(_, _, _, _, _)
TryExits(L, actor, direction, i, num_directions) ==
    IF L.thrown # "none" THEN L
    ELSE IF i >= num_directions THEN [L EXCEPT !.ret = 0]
    ELSE LET stepped == Invoke(L, "attempt_step", <<actor, direction>>) IN
         IF stepped.thrown # "none" \/ stepped.ret = 1 THEN stepped
         ELSE TryExits(stepped, actor, DIRECTIONS[direction].right, i + 1, num_directions)

\* teleporting: the actor is taken out of its cell and put on top of the
\* cell of the destination
PutAt(L, actor, dest) ==
    add_tile(remove_tile(L, actor), actor, L.tile[dest].cell, NullN)

\* teleporting: how many directions are tried at a destination
NumDirections(L, teleporter, dest) ==
    IF TypeOf(L, teleporter).teleport_try_all_directions /\ dest # teleporter
    THEN 4 ELSE 1

RECURSIVE TeleportTo(_, _, _, _, _, _)

\* teleporting: after the steps out of destination k; out.ret tells whether
\* one succeeded, and the facing is restored where four were tried
AfterExits(out, others, actor, teleporter, dests, k, original_direction) ==
    IF out.thrown # "none" THEN out
    ELSE IF out.ret = 1 THEN Tried(out, actor, dests[k], others, "exited")
    ELSE IF NumDirections(out, teleporter, dests[k]) = 4
    THEN TeleportTo(set_actor_direction(Tried(out, actor, dests[k], others, "failed"),
                                        actor, original_direction),
                    actor, teleporter, dests, k + 1, original_direction)
    ELSE TeleportTo(Tried(out, actor, dests[k], others, "failed"),
                    actor, teleporter, dests, k + 1, original_direction)

\* a teleport that moves the actor to a destination whoever stands there
TeleportTo_occupied(L, actor, teleporter, dests, k, original_direction) ==
    IF k > Len(dests) \/ L.thrown # "none" THEN L
    ELSE AfterExits(TryExits(PutAt(L, actor, dests[k]), actor, L.tile[actor].direction,
                             0, NumDirections(L, teleporter, dests[k])),
                    OtherActors(L, dests[k], actor),
                    actor, teleporter, dests, k, original_direction)

\* teleporting: the destinations from the k-th on
TeleportTo(L, actor, teleporter, dests, k, original_direction) ==
    IF k > Len(dests) \/ L.thrown # "none" THEN L
    ELSE IF OtherActors(L, dests[k], actor) # {}
    THEN TeleportTo(Tried(L, actor, dests[k], OtherActors(L, dests[k], actor), "occupied"),
                    actor, teleporter, dests, k + 1, original_direction)
    ELSE AfterExits(TryExits(PutAt(L, actor, dests[k]), actor, L.tile[actor].direction,
                             0, NumDirections(L, teleporter, dests[k])),
                    {}, actor, teleporter, dests, k, original_direction)

\* step_on_cell: the teleporter found in the cell, if any, is handled when
\* all the tiles have reacted
Teleport(stepped, actor) ==
    IF stepped.L.thrown # "none" \/ stepped.teleporter = 0 THEN stepped.L
    ELSE TeleportTo(stepped.L, actor, stepped.teleporter,
                    teleport_dest_order(stepped.L, stepped.teleporter, actor), 1,
                    stepped.L.tile[actor].direction)

\* Level.step_on_cell(actor, cell)
step_on_cell(L, actor, cell) ==
    IF L.thrown # "none" THEN L
    ELSE Teleport(StepOnTiles([L |-> L, teleporter |-> 0], actor, cell, L.cells[cell], 1),
                  actor)

\* move_to: announcing the departure to a copy of the original cell (no type
\* of the registry has an on_depart hook)
Depart(L, actor, original_cell) == L

\* move_to: the player leaving a hint
ClearHint(L, actor) ==
    IF actor = L.player THEN set_level_prop(L, "hint_shown", "null") ELSE L

\* the collisions of move_to without the one of a block with the player
Crash_block_harmless(L, actor, tile) ==
    IF L.thrown # "none" THEN L
    ELSE IF TypeOf(L, actor).is_player /\ TypeOf(L, tile).is_monster
    THEN fail(L, L.tile[tile].type)
    ELSE IF TypeOf(L, actor).is_monster /\ TypeOf(L, tile).is_player
    THEN fail(L, L.tile[actor].type)
    ELSE L

\* move_to, one tile of the goal cell: the collisions that end the game
Crash(L, actor, tile) ==
    IF L.thrown # "none" THEN L
    ELSE IF TypeOf(L, actor).is_player /\ TypeOf(L, tile).is_monster
    THEN fail(L, L.tile[tile].type)
    ELSE IF TypeOf(L, actor).is_monster /\ TypeOf(L, tile).is_player
    THEN fail(L, L.tile[actor].type)
    ELSE IF TypeOf(L, actor).is_block /\ TypeOf(L, tile).is_player
    THEN fail(L, "squished")
    ELSE L

\* move_to, one tile of the goal cell: a sliding tile makes the actor slide
StartSlide(L, actor, tile) ==
    IF L.thrown # "none" THEN L
    ELSE IF TypeOf(L, tile).slide_mode # "undefined" /\ ~ignores(L, actor, L.tile[tile].type)
    THEN make_slide(L, actor, TypeOf(L, tile).slide_mode)
    ELSE L

\* move_to, one tile of the goal cell: the player reading a hint
ShowHint(L, actor, tile) ==
    IF L.thrown # "none" THEN L
    ELSE IF actor = L.player /\ TypeOf(L, tile).is_hint
    THEN set_level_prop(L, "hint_shown", "hint")
    ELSE L

\* move_to: the effects that apply at once, tile by tile of the goal cell
\* (the live array, 0-based index i)
RECURSIVE Collide(_, _, _, _)
Collide(L, actor, goal_cell, i) ==
    IF L.thrown # "none" \/ i >= Len(L.cells[goal_cell]) THEN L
    ELSE Collide(ShowHint(StartSlide(Crash(L, actor, L.cells[goal_cell][i + 1]),
                                     actor, L.cells[goal_cell][i + 1]),
                          actor, L.cells[goal_cell][i + 1]),
                 actor, goal_cell, i + 1)

\* move_to: a monster entering the cell the player is leaving
TailBite(L, actor, goal_cell) ==
    IF L.thrown # "none" THEN L
    ELSE IF TypeOf(L, actor).is_monster /\ goal_cell = L.player_leaving_cell
    THEN fail(L, L.tile[actor].type)
    ELSE L

\* move_to: under the compat flag the actor steps on its new cell at once
ReactInstantly(L, actor) ==
    IF L.thrown # "none" THEN L
    ELSE IF L.compat_tiles_react_instantly
    THEN Invoke(L, "step_on_cell", <<actor, L.tile[actor].cell>>)
    ELSE L

\* move_to: leaving the original cell for the goal cell
Relocate(L, actor, goal_cell, speed) ==
    add_tile(
        make_slide(
            remove_tile(
                set_prop(
                    set_prop(
                        set_prop(L, actor, "previous_cell", L.tile[actor].cell),
                        actor, "animation_speed", speed),
                    actor, "animation_progress", 0),
                actor),
            actor, "null"),
        actor, goal_cell, NullN)

\* Level.move_to(actor, goal_cell, speed)
move_to(L, actor, goal_cell, speed) ==
    IF L.thrown # "none" THEN L
    ELSE IF L.tile[actor].cell = goal_cell THEN L
    ELSE ReactInstantly(
            TailBite(
                Collide(
                    ClearHint(
                        Depart(Relocate(L, actor, goal_cell, speed),
                               actor, L.tile[actor].cell),
                        actor),
                    actor, goal_cell, 0),
                actor, goal_cell),
            actor)

\* attempt_step: the first pass over the goal cell (the live array, 0-based
\* index i); acc carries the level, blocked, blocked_by_pushable,
\* has_slide_tile and the goal cell
RECURSIVE ScanGoal(_, _, _, _)
ScanGoal(acc, actor, direction, i) ==
    IF i >= Len(acc.L.cells[acc.goal_cell]) THEN acc
    ELSE LET tile == acc.L.cells[acc.goal_cell][i + 1]
             blocking == blocks(acc.L, tile, actor, direction)
             pushable == can_push(acc.L, actor, tile, direction)
         IN  ScanGoal([acc EXCEPT
                          !.blocked_by_pushable = @ \/ (blocking /\ pushable),
                          !.blocked = @ \/ (blocking /\ ~pushable),
                          !.has_slide_tile =
                              @ \/ (/\ ~ignores(acc.L, actor, acc.L.tile[tile].type)
                                    /\ TypeOf(acc.L, tile).slide_mode # "undefined")],
                      actor, direction, i + 1)

\* the push of a tile attempted, and nothing remembered of a push that failed
AfterPush_forgets(L, actor, tile, direction) ==
    IF L.thrown # "none" THEN L
    ELSE [L EXCEPT !.tile[actor].is_pushing = IF actor = L.player THEN "true" ELSE @]

\* attempt_step: after the push of one tile was attempted (L.ret tells
\* whether it moved)
AfterPush(L, actor, tile, direction) ==
    IF L.thrown # "none" THEN L
    ELSE IF L.ret = 0 /\ L.tile[tile].slide_mode # "null"
            /\ L.tile[tile].movement_cooldown # 0
    THEN [set_prop(L, tile, "pending_push", direction)
            EXCEPT !.tile[actor].is_pushing =
                      IF actor = L.player THEN "true" ELSE @]
    ELSE [L EXCEPT !.tile[actor].is_pushing = IF actor = L.player THEN "true" ELSE @]

\* attempt_step: pushing whatever can be pushed, over a copy of the goal cell
RECURSIVE PushAll(_, _, _, _, _)
PushAll(L, actor, direction, tiles, i) ==
    IF i > Len(tiles) \/ L.thrown # "none" THEN L
    ELSE IF can_push(L, actor, tiles[i], direction)
    THEN PushAll(AfterPush(Invoke(L, "attempt_step", <<tiles[i], direction>>),
                           actor, tiles[i], direction),
                 actor, direction, tiles, i + 1)
    ELSE PushAll(L, actor, direction, tiles, i + 1)

\* attempt_step: after the pushes, is the goal cell still blocked
Recheck(L, acc, actor, direction) ==
    [acc EXCEPT !.L = L,
                !.blocked = /\ L.thrown = "none"
                            /\ blocks_entering(L, acc.goal_cell, actor, direction, FALSE)]

\* attempt_step: if the only thing in the way can be pushed, push it
TryPushes(acc, actor, direction) ==
    IF ~acc.blocked /\ acc.blocked_by_pushable
    THEN Recheck(PushAll(acc.L, actor, direction, acc.L.cells[acc.goal_cell], 1),
                 acc, actor, direction)
    ELSE acc

\* attempt_step: is the step blocked, by the edge of the grid, by the cell the
\* actor is in, or by the goal cell
Probe(L, actor, direction, goal_cell) ==
    IF goal_cell = NullCell
    THEN [L |-> L, goal_cell |-> goal_cell, blocked |-> TRUE,
          blocked_by_pushable |-> FALSE, has_slide_tile |-> FALSE]
    ELSE IF blocks_leaving(L, L.tile[actor].cell, actor, direction)
    THEN [L |-> L, goal_cell |-> goal_cell, blocked |-> TRUE,
          blocked_by_pushable |-> FALSE, has_slide_tile |-> FALSE]
    ELSE TryPushes(ScanGoal([L |-> L, goal_cell |-> goal_cell, blocked |-> FALSE,
                             blocked_by_pushable |-> FALSE, has_slide_tile |-> FALSE],
                            actor, direction, 0),
                   actor, direction)

\* attempt_step: a sliding actor that is blocked steps again on the tiles of
\* its own cell that make it slide (the live array, 0-based index i)
RECURSIVE ArriveAgain(_, _, _)
ArriveAgain(L, actor, i) ==
    IF L.thrown # "none" THEN L
    ELSE IF L.tile[actor].cell = NullCell THEN L
    ELSE IF i >= Len(L.cells[L.tile[actor].cell]) THEN L
    ELSE IF /\ TypeOf(L, L.cells[L.tile[actor].cell][i + 1]).slide_mode
                  = L.tile[actor].slide_mode
            /\ TypeOf(L, L.cells[L.tile[actor].cell][i + 1]).has_on_arrive
    THEN ArriveAgain(Invoke(L, "on_arrive", <<L.cells[L.tile[actor].cell][i + 1], actor>>),
                     actor, i + 1)
    ELSE ArriveAgain(L, actor, i + 1)

\* the value a method returns, unless it has thrown
Return(L, value) == IF L.thrown # "none" THEN L ELSE [L EXCEPT !.ret = value]

\* attempt_step: a blocked actor on ice turns around
Bounce(L, actor, direction) ==
    IF L.tile[actor].slide_mode = "ice"
    THEN set_actor_direction(L, actor, DIRECTIONS[direction].opposite)
    ELSE L

\* attempt_step: a blocked actor that is sliding arrives again where it is
SlideInPlace(L, actor) ==
    IF L.thrown # "none" THEN L
    ELSE IF L.tile[actor].slide_mode # "null" THEN ArriveAgain(L, actor, 0)
    ELSE L

\* attempt_step ending with the type's speed whatever the goal cell holds
Finish_full_speed(acc, actor, direction, speed) ==
    IF acc.L.thrown # "none" THEN acc.L
    ELSE IF acc.blocked
    THEN Return(SlideInPlace(Bounce(acc.L, actor, direction), actor), 0)
    ELSE Return(set_prop(Invoke(acc.L, "move_to", <<actor, acc.goal_cell, speed>>),
                         actor, "movement_cooldown", speed),
                1)

\* attempt_step: the end, blocked or clear
Finish(acc, actor, direction, speed) ==
    IF acc.L.thrown # "none" THEN acc.L
    ELSE IF acc.blocked
    THEN Return(SlideInPlace(Bounce(acc.L, actor, direction), actor), 0)
    ELSE Return(set_prop(Invoke(acc.L, "move_to",
                                <<actor, acc.goal_cell,
                                  IF acc.has_slide_tile THEN speed \div 2 ELSE speed>>),
                         actor, "movement_cooldown",
                         IF acc.has_slide_tile THEN speed \div 2 ELSE speed),
                1)

\* attempt_step: once the actor has been turned to face the direction
Step(L, actor, direction) ==
    IF L.thrown # "none" THEN L
    ELSE IF L.tile[actor].stuck = "true" THEN [L EXCEPT !.ret = 0]
    ELSE IF L.tile[actor].cell = NullCell THEN Throw(L, "Error")
    ELSE Finish(Probe(L, actor, direction,
                      get_neighboring_cell(L, L.tile[actor].cell, direction)),
                actor, direction, TypeOf(L, actor).movement_speed)

\* attempt_step leaving a stuck actor facing the way it faced
attempt_step_keeps_facing(L, actor, direction) ==
    IF L.thrown # "none" THEN L
    ELSE IF L.tile[actor].movement_cooldown > 0 THEN [L EXCEPT !.ret = 0]
    ELSE IF L.tile[actor].stuck = "true" THEN [L EXCEPT !.ret = 0]
    ELSE Step(set_actor_direction(L, actor, direction), actor, direction)

\* attempt_step reporting success for an actor that is in mid-movement
attempt_step_moving_succeeds(L, actor, direction) ==
    IF L.thrown # "none" THEN L
    ELSE IF L.tile[actor].movement_cooldown > 0 THEN [L EXCEPT !.ret = 1]
    ELSE Step(set_actor_direction(L, actor, direction), actor, direction)

\* Level.attempt_step(actor, direction): L.ret is 1 when the actor moved
attempt_step(L, actor, direction) ==
    IF L.thrown # "none" THEN L
    ELSE IF L.tile[actor].movement_cooldown > 0 THEN [L EXCEPT !.ret = 0]
    ELSE Step(set_actor_direction(L, actor, direction), actor, direction)

----------------------------------------------------------------------------
(* The tic pipeline (Level._advance_tic), pass by pass.  Every loop walks   *)
(* the roster by a 0-based index i, as the source does.                     *)

Actor(L, i) == L.actors[i + 1]

\* history: a pass of the tic (1, 2 or 3) takes up the actor at index i of the
\* roster, having passed the checks that make the loop skip an entry
Visit(L, pass, i) == [L EXCEPT !.visited = Append(@, <<pass, i>>)]

\* first pass, one actor: the animation is over; the actor arrives where it
\* was going
Arrive(L, actor) ==
    IF ~L.compat_tiles_react_instantly /\ L.thrown = "none"
    THEN [L EXCEPT !.cell_steppers = Append(@, <<actor, L.tile[actor].cell>>)]
    ELSE L

\* first pass, one actor: the animation has advanced by one tic
EndAnimation(L, actor) ==
    IF L.tile[actor].animation_progress >= L.tile[actor].animation_speed
    THEN IF TypeOf(L, actor).ttl > 0
         THEN remove_tile(L, actor)
         ELSE Arrive(set_prop(set_prop(set_prop(L, actor, "previous_cell", NullCell),
                                       actor, "animation_progress", NullN),
                              actor, "animation_speed", NullN),
                     actor)
    ELSE L

\* first pass, one actor: the animation
Animate(L, actor) ==
    IF L.tile[actor].animation_speed > 0
    THEN EndAnimation(set_prop(L, actor, "animation_progress",
                               L.tile[actor].animation_progress + 1),
                      actor)
    ELSE L

\* the first pass leaving the cooldown as it is
CoolDown_kept(L, actor) == L

\* first pass, one actor: the cooldown
CoolDown(L, actor) ==
    IF L.tile[actor].movement_cooldown > 0
    THEN set_prop(L, actor, "movement_cooldown", L.tile[actor].movement_cooldown - 1)
    ELSE L

\* first pass, one actor: cooldown and animation
TickActor(L, actor) ==
    Animate(CoolDown([L EXCEPT !.tile[actor].decision = "null"], actor), actor)

\* first pass: the roster in reverse order
RECURSIVE FirstPass(_, _)
FirstPass(L, i) ==
    IF i < 0 \/ L.thrown # "none" THEN L
    ELSE IF L.tile[Actor(L, i)].cell = NullCell THEN FirstPass(L, i - 1)
    ELSE FirstPass(TickActor(Visit(L, 1, i), Actor(L, i)), i - 1)

\* the deferred step-on-cell triggers, in the order they were queued
RECURSIVE RunSteppers(_, _)
RunSteppers(L, k) ==
    IF k > Len(L.cell_steppers) \/ L.thrown # "none" THEN L
    ELSE RunSteppers(Invoke(L, "step_on_cell", <<L.cell_steppers[k][1], L.cell_steppers[k][2]>>),
                     k + 1)

\* a bitmask field that may be undefined, as the operand of &
Bits(v) == IF v < 0 THEN 0 ELSE v

\* type.get_emitting_edges(tile, level): the bitmask of edges a power source
\* emits on; a button emits on its wires while an actor stands on it (not in
\* transit)
get_emitting_edges(L, t) ==
    IF /\ L.tile[t].type = "button_pink"
       /\ \E i \in 1..Len(L.cells[L.tile[t].cell]) :
             /\ TypeOf(L, L.cells[L.tile[t].cell][i]).is_actor
             /\ L.tile[L.cells[L.tile[t].cell][i]].movement_cooldown = 0
    THEN Bits(L.tile[t].wire_directions)
    ELSE 0

\* the trap's on_power: the actors of its cell are let go
RECURSIVE Release(_, _, _)
Release(L, tiles, i) ==
    IF i > Len(tiles) \/ L.thrown # "none" THEN L
    ELSE IF TypeOf(L, tiles[i]).is_actor
    THEN Release(set_actor_stuck(L, tiles[i], "false"), tiles, i + 1)
    ELSE Release(L, tiles, i + 1)

\* type.on_power / type.on_depower of tile t
on_power_change(L, t, powered) ==
    IF L.tile[t].type = "trap" /\ powered
    THEN Release(L, L.cells[L.tile[t].cell], 1)
    ELSE L

\* Cell.get_wired_tile(): the topmost tile with wires or tunnels, 0 for null
get_wired_tile(L, c) ==
    LET wired == {i \in 1..Len(L.cells[c]) :
                    \/ L.tile[L.cells[c][i]].wire_directions > 0
                    \/ L.tile[L.cells[c][i]].wire_tunnel_directions > 0}
    IN  IF wired = {} THEN 0
        ELSE L.cells[c][CHOOSE i \in wired : \A j \in wired : j <= i]

\* update_wiring: gathering the power sources.  acc carries the level, the
\* queue of the flood fill and any_changed; a queue entry is a cell with
\* either a bitmask (mask >= 0) or the direction the power arrives from.
RECURSIVE GatherSources(_, _)
GatherSources(acc, k) ==
    IF k > Len(acc.L.power_sources) THEN acc
    ELSE LET L == acc.L
             tile == L.power_sources[k]
         IN  IF L.tile[tile].cell = NullCell THEN GatherSources(acc, k + 1)
             ELSE LET emitting == get_emitting_edges(L, tile)
                      queued == IF emitting # 0
                                THEN Append(acc.neighbors,
                                            [cell |-> L.tile[tile].cell, mask |-> emitting,
                                             from |-> "none"])
                                ELSE acc.neighbors
                  IN  GatherSources(
                        [L |-> [L EXCEPT !.tile[tile].emitting_edges = emitting],
                         neighbors |-> queued,
                         any_changed |-> acc.any_changed
                                           \/ emitting # L.tile[tile].emitting_edges],
                        k + 1)

\* update_wiring: the actors, any of which may hold a lightning bolt; what an
\* actor "emits" is a boolean (or undefined), queued as such
RECURSIVE GatherActors(_, _)
GatherActors(acc, k) ==
    IF k > Len(acc.L.actors) THEN acc
    ELSE LET L == acc.L
             actor == L.actors[k]
         IN  IF L.tile[actor].cell = NullCell THEN GatherActors(acc, k + 1)
             ELSE LET emitting == IF L.tile[actor].movement_cooldown = 0
                                  THEN has_item(L, actor, "lightning_bolt")
                                  ELSE FalseN
                      queued == IF emitting = TrueN
                                THEN Append(acc.neighbors,
                                            [cell |-> L.tile[actor].cell, mask |-> TrueN,
                                             from |-> "true"])
                                ELSE acc.neighbors
                  IN  GatherActors(
                        [L |-> [L EXCEPT !.tile[actor].emitting_edges = emitting],
                         neighbors |-> queued,
                         any_changed |-> acc.any_changed
                                           \/ emitting # L.tile[actor].emitting_edges],
                        k + 1)

\* the tunnel search as if tunnels nested like parentheses: a tunnel opening
\* in the direction of the ray has to be closed before an end matches
RECURSIVE FindNested(_, _, _, _, _)
FindNested(L, x, y, direction, nesting) ==
    LET move == DIRECTIONS[direction].movement
        nx == x + move[1]
        ny == y + move[2]
        bit == DIRECTIONS[direction].bit
        opposite_bit == DIRECTIONS[DIRECTIONS[direction].opposite].bit
    IN  IF ~is_point_within_bounds(L, nx, ny) THEN NullCell
        ELSE LET candidate == CellAt(L, nx, ny)
                 neighbor_wire == get_wired_tile(L, candidate)
                 tunnels == IF neighbor_wire = 0 THEN 0
                            ELSE Bits(L.tile[neighbor_wire].wire_tunnel_directions)
                 closed == IF BitAnd(tunnels, opposite_bit) # 0 THEN nesting - 1 ELSE nesting
                 opened == IF BitAnd(tunnels, bit) # 0 THEN closed + 1 ELSE closed
             IN  IF BitAnd(tunnels, opposite_bit) # 0 /\ nesting = 0
                 THEN candidate
                 ELSE FindNested(L, nx, ny, direction, opened)

FindTunnel_nested(L, x, y, direction) == FindNested(L, x, y, direction, 0)

\* the flood fill: the matching tunnel along a ray, NullCell when the ray
\* leaves the grid first
RECURSIVE FindTunnel(_, _, _, _)
FindTunnel(L, x, y, direction) ==
    LET move == DIRECTIONS[direction].movement
        nx == x + move[1]
        ny == y + move[2]
        opposite_bit == DIRECTIONS[DIRECTIONS[direction].opposite].bit
    IN  IF ~is_point_within_bounds(L, nx, ny) THEN NullCell
        ELSE LET candidate == CellAt(L, nx, ny)
                 neighbor_wire == get_wired_tile(L, candidate)
             IN  IF neighbor_wire # 0
                    /\ BitAnd(Bits(L.tile[neighbor_wire].wire_tunnel_directions),
                              opposite_bit) # 0
                 THEN candidate
                 ELSE FindTunnel(L, nx, ny, direction)

\* the flood fill: passing the current of one cell on to its neighbours, one
\* direction of the table after the other
RECURSIVE Propagate(_, _, _, _, _)
Propagate(acc, cell, wire, from, d) ==
    IF d > Len(DirNames) \/ acc.L.thrown # "none" THEN acc
    ELSE LET L == acc.L
             direction == DirNames[d]
             bit == DIRECTIONS[direction].bit
             opposite == DIRECTIONS[direction].opposite
             opposite_bit == DIRECTIONS[opposite].bit
         IN  IF direction = from \/ BitAnd(L.powered_edges[cell], bit) = 0
             THEN Propagate(acc, cell, wire, from, d + 1)
             ELSE LET tunnel == wire # 0
                                /\ BitAnd(Bits(L.tile[wire].wire_tunnel_directions), bit) # 0
                      neighbor == IF tunnel
                                  THEN FindTunnel(L, CellX(L, cell), CellY(L, cell), direction)
                                  ELSE get_neighboring_cell(L, cell, direction)
                  IN  IF ~tunnel /\ neighbor = NullCell
                      THEN [acc EXCEPT !.L = Throw(L, "Error")]
                      ELSE IF neighbor = NullCell
                      THEN Propagate(acc, cell, wire, from, d + 1)
                      ELSE LET neighbor_wire == get_wired_tile(L, neighbor) IN
                           IF /\ BitAnd(L.powered_edges[neighbor], opposite_bit) = 0
                              /\ \/ neighbor_wire = 0
                                 \/ BitAnd(Bits(L.tile[neighbor_wire].wire_directions),
                                           opposite_bit) # 0
                           THEN Propagate([acc EXCEPT !.neighbors =
                                              Append(@, [cell |-> neighbor, mask |-> NullN,
                                                         from |-> opposite])],
                                          cell, wire, from, d + 1)
                           ELSE Propagate(acc, cell, wire, from, d + 1)

\* the entry of the queue as if power on an unwired edge replaced the mask of
\* the cell
FillEntry_overwrites(rest, head) ==
    LET L == rest.L
        cell == head.cell
        wire == get_wired_tile(L, cell)
    IN  IF head.mask >= 0
        THEN Propagate([rest EXCEPT !.L.powered_edges[cell] = head.mask],
                       cell, wire, head.from, 1)
        ELSE IF head.from \notin Dirs
        THEN [rest EXCEPT !.L = Throw(L, "Error")]
        ELSE LET bit == DIRECTIONS[head.from].bit
                 wires == IF wire = 0 THEN 0 ELSE Bits(L.tile[wire].wire_directions)
             IN  IF wire = 0 \/ BitAnd(wires, bit) = 0
                 THEN [rest EXCEPT !.L.powered_edges[cell] = bit]
                 ELSE IF wires = 15
                 THEN Propagate(
                         [rest EXCEPT !.L.powered_edges[cell] =
                             BitOr(BitOr(@, bit),
                                   DIRECTIONS[DIRECTIONS[head.from].opposite].bit)],
                         cell, wire, head.from, 1)
                 ELSE Propagate([rest EXCEPT !.L.powered_edges[cell] = wires],
                                cell, wire, head.from, 1)

\* the flood fill, one entry of the queue: the cell is powered and the
\* current passed on; rest carries the level and the queue without the entry
FillEntry(rest, head) ==
    LET L == rest.L
        cell == head.cell
        wire == get_wired_tile(L, cell)
    IN  IF head.mask >= 0
        THEN Propagate([rest EXCEPT !.L.powered_edges[cell] = head.mask],
                       cell, wire, head.from, 1)
        ELSE IF head.from \notin Dirs
        THEN [rest EXCEPT !.L = Throw(L, "Error")]
        ELSE LET bit == DIRECTIONS[head.from].bit
                 wires == IF wire = 0 THEN 0 ELSE Bits(L.tile[wire].wire_directions)
             IN  IF wire = 0 \/ BitAnd(wires, bit) = 0
                 THEN [rest EXCEPT !.L.powered_edges[cell] = BitOr(@, bit)]
                 ELSE IF wires = 15
                 THEN Propagate(
                         [rest EXCEPT !.L.powered_edges[cell] =
                             BitOr(BitOr(@, bit),
                                   DIRECTIONS[DIRECTIONS[head.from].opposite].bit)],
                         cell, wire, head.from, 1)
                 ELSE Propagate([rest EXCEPT !.L.powered_edges[cell] = wires],
                                cell, wire, head.from, 1)

\* the flood fill: the queue is taken from its head until it is empty
RECURSIVE FloodFill(_)
FloodFill(acc) ==
    IF Len(acc.neighbors) = 0 \/ acc.L.thrown # "none" THEN acc.L
    ELSE FloodFill(FillEntry([acc EXCEPT !.neighbors = Tail(@)], acc.neighbors[1]))

\* update_wiring: telling the tiles of every cell that gained or lost power
RECURSIVE InformTiles(_, _, _, _)
InformTiles(L, tiles, i, powered) ==
    IF i > Len(tiles) \/ L.thrown # "none" THEN L
    ELSE InformTiles(on_power_change(L, tiles[i], powered), tiles, i + 1, powered)

RECURSIVE InformCells(_, _)
InformCells(L, c) ==
    IF c > L.width * L.height \/ L.thrown # "none" THEN L
    ELSE IF (L.prev_powered_edges[c] = 0) # (L.powered_edges[c] = 0)
    THEN InformCells(InformTiles(L, L.cells[c], 1, L.powered_edges[c] # 0), c + 1)
    ELSE InformCells(L, c + 1)

\* the circuit computed again without the power being turned off first
Rewire_keeps_power(acc) ==
    IF ~acc.any_changed THEN acc.L
    ELSE InformCells(
            FloodFill([acc EXCEPT !.L.prev_powered_edges = acc.L.powered_edges]),
            1)

\* the circuit computed again in every tic, changed or not
Rewire_always(acc) ==
    InformCells(
        FloodFill([acc EXCEPT !.L.prev_powered_edges = acc.L.powered_edges,
                              !.L.powered_edges = [c \in DOMAIN acc.L.cells |-> 0]]),
        1)

\* update_wiring: something changed, so the circuit is computed again
Rewire(acc) ==
    IF ~acc.any_changed THEN acc.L
    ELSE InformCells(
            FloodFill([acc EXCEPT !.L.prev_powered_edges = acc.L.powered_edges,
                                  !.L.powered_edges = [c \in DOMAIN acc.L.cells |-> 0]]),
            1)

\* Level.update_wiring()
update_wiring(L) ==
    IF L.thrown # "none" THEN L
    ELSE Rewire(GatherActors(GatherSources([L |-> L, neighbors |-> <<>>,
                                            any_changed |-> FALSE], 1), 1))

\* a direction turned to the left as many times
RotateLeft(direction, turns) ==
    IF turns = 0 THEN direction
    ELSE IF turns = 1 THEN DIRECTIONS[direction].left
    ELSE IF turns = 2 THEN DIRECTIONS[DIRECTIONS[direction].left].left
    ELSE DIRECTIONS[DIRECTIONS[DIRECTIONS[direction].left].left].left

\* second pass: the directions a type's movement mode prefers, in order; acc
\* carries the level (the blob draws from the PRNG) and the list, which is
\* "undefined" for an actor without a movement mode
RotateRight(direction, turns) ==
    IF turns = 0 THEN direction
    ELSE IF turns = 1 THEN DIRECTIONS[direction].right
    ELSE IF turns = 2 THEN DIRECTIONS[DIRECTIONS[direction].right].right
    ELSE DIRECTIONS[DIRECTIONS[DIRECTIONS[direction].right].right].right

Pursue(L, actor) ==
    LET player == L.tile[L.player]
        target_cell == IF /\ player.previous_cell > 0
                          /\ player.animation_speed > 0
                          /\ 2 * player.animation_progress <= player.animation_speed
                       THEN player.previous_cell
                       ELSE player.cell
        dx == CellX(L, L.tile[actor].cell) - CellX(L, target_cell)
        dy == CellY(L, L.tile[actor].cell) - CellY(L, target_cell)
        horizontal == IF dx > 0 THEN <<"west">> ELSE IF dx < 0 THEN <<"east">> ELSE <<>>
        vertical == IF dy > 0 THEN <<"north">> ELSE IF dy < 0 THEN <<"south">> ELSE <<>>
        abs(v) == IF v < 0 THEN -v ELSE v
    IN  IF abs(dx) > abs(dy) THEN horizontal \o vertical ELSE vertical \o horizontal

\* the blob: modifier is what get_blob_modifier returned, L.ret what prng did
RandomPreference(L, modifier) ==
    [L |-> L, list |-> << DirNames[((L.ret + modifier) % 4) + 1] >>]

\* the blob, once get_blob_modifier has returned in L.ret
DrawRandom(L) == RandomPreference(prng(L), L.ret)

DirectionPreference(L, actor) ==
    LET mode == TypeOf(L, actor).movement_mode
        direction == L.tile[actor].direction
        d == DIRECTIONS[direction]
    IN  CASE mode = "follow-left" ->
                [L |-> L, list |-> <<d.left, direction, d.right, d.opposite>>]
          [] mode = "follow-right" ->
                [L |-> L, list |-> <<d.right, direction, d.left, d.opposite>>]
          [] mode = "turn-left" ->
                [L |-> L, list |-> <<direction, d.left, d.right, d.opposite>>]
          [] mode = "turn-right" ->
                [L |-> L, list |-> <<direction, d.right, d.left, d.opposite>>]
          [] mode = "bounce" -> [L |-> L, list |-> <<direction, d.opposite>>]
          [] mode = "bounce-random" -> [L |-> L, list |-> <<direction, "WALKER">>]
          [] mode = "pursue" -> [L |-> L, list |-> Pursue(L, actor)]
          [] mode = "random" -> DrawRandom(get_blob_modifier(L))
          [] OTHER -> [L |-> L, list |-> "undefined"]

\* the way into the next cell taken for free whatever closes the way out
CanGo_any_exit(L, actor, direction, dest_cell) ==
    /\ dest_cell # NullCell
    /\ ~blocks_entering(L, dest_cell, actor, direction, TRUE)

\* second pass: is the way out of the cell and into the next one free
CanGo(L, actor, direction, dest_cell) ==
    /\ dest_cell # NullCell
    /\ ~blocks_leaving(L, L.tile[actor].cell, actor, direction)
    /\ ~blocks_entering(L, dest_cell, actor, direction, TRUE)

\* second pass: trying the preferred directions in order
RECURSIVE TryDirections(_, _, _, _, _)

TryDirection(L, actor, list, k, direction) ==
    IF CanGo(L, actor, direction, get_neighboring_cell(L, L.tile[actor].cell, direction))
    THEN [L EXCEPT !.tile[actor].decision = direction]
    ELSE TryDirections(L, actor, list, k + 1, direction)

TryDirections(L, actor, list, k, fallback_direction) ==
    IF k > Len(list)
    THEN IF L.tile[actor].decision = "null"
         THEN [L EXCEPT !.tile[actor].decision = fallback_direction]
         ELSE L
    ELSE IF list[k] = "WALKER"
    THEN TryDirection(prng(L), actor, list, k,
                      RotateRight(L.tile[actor].direction, prng(L).ret % 4))
    ELSE TryDirection(L, actor, list, k, list[k])

\* second pass: an actor with a movement mode picks among its preferences
Choose(pref, actor) ==
    IF pref.list # "undefined" /\ pref.L.tile[actor].stuck # "true"
    THEN TryDirections(pref.L, actor, pref.list, 1, "undefined")
    ELSE pref.L

\* second pass: a player on a force floor that does not override it
Forced(L, actor) ==
    IF actor = L.player THEN set_prop(L, actor, "last_move_was_force", "true") ELSE L

\* second pass: an actor that keeps going forward, unless it sits on a cloner
Forward(L, actor, direction) ==
    IF \E i \in 1..Len(L.cells[L.tile[actor].cell]) :
          L.tile[L.cells[L.tile[actor].cell][i]].type = "cloner"
    THEN L
    ELSE [L EXCEPT !.tile[actor].decision = direction]

\* a teeth that waits for no tic
Hesitates_never(L, actor) == FALSE

\* second pass: teeth move only in four tics of every eight, unless they slide
Hesitates(L, actor) ==
    /\ L.tile[actor].slide_mode = "null"
    /\ TypeOf(L, actor).uses_teeth_hesitation
    /\ (L.tic_counter + L.step_parity) % 8 >= 4

\* the decision of one actor, the player overriding every force floor
Decide_overrides_freely(L, actor, p1_primary_direction) ==
    LET tile == L.tile[actor]
        type == TypeOf(L, actor)
    IN
    IF Hesitates(L, actor) THEN L
    ELSE IF tile.pending_push \in Dirs
    THEN set_prop([L EXCEPT !.tile[actor].decision = tile.pending_push],
                  actor, "pending_push", "null")
    ELSE IF tile.slide_mode = "ice"
    THEN [L EXCEPT !.tile[actor].decision = tile.direction]
    ELSE IF tile.slide_mode = "force"
    THEN IF actor = L.player /\ p1_primary_direction \in Dirs
         THEN set_prop([L EXCEPT !.tile[actor].decision = p1_primary_direction],
                       actor, "last_move_was_force", "false")
         ELSE Forced([L EXCEPT !.tile[actor].decision = tile.direction], actor)
    ELSE IF actor = L.player
    THEN IF p1_primary_direction \in Dirs
         THEN set_prop([L EXCEPT !.tile[actor].decision = p1_primary_direction],
                       actor, "last_move_was_force", "false")
         ELSE L
    ELSE IF type.movement_mode = "forward"
    THEN IF tile.pending_reverse = "true"
         THEN Forward(set_prop(L, actor, "pending_reverse", "false"), actor,
                      DIRECTIONS[tile.direction].opposite)
         ELSE Forward(L, actor, tile.direction)
    ELSE Choose(DirectionPreference(L, actor), actor)

\* second pass, one actor that is on the grid and not cooling down
Decide(L, actor, p1_primary_direction) ==
    LET tile == L.tile[actor]
        type == TypeOf(L, actor)
    IN
    IF Hesitates(L, actor) THEN L
    ELSE IF tile.pending_push \in Dirs
    THEN set_prop([L EXCEPT !.tile[actor].decision = tile.pending_push],
                  actor, "pending_push", "null")
    ELSE IF tile.slide_mode = "ice"
    THEN [L EXCEPT !.tile[actor].decision = tile.direction]
    ELSE IF tile.slide_mode = "force"
    THEN IF actor = L.player /\ p1_primary_direction \in Dirs
            /\ tile.last_move_was_force = "true"
         THEN set_prop([L EXCEPT !.tile[actor].decision = p1_primary_direction],
                       actor, "last_move_was_force", "false")
         ELSE Forced([L EXCEPT !.tile[actor].decision = tile.direction], actor)
    ELSE IF actor = L.player
    THEN IF p1_primary_direction \in Dirs
         THEN set_prop([L EXCEPT !.tile[actor].decision = p1_primary_direction],
                       actor, "last_move_was_force", "false")
         ELSE L
    ELSE IF type.movement_mode = "forward"
    THEN IF tile.pending_reverse = "true"
         THEN Forward(set_prop(L, actor, "pending_reverse", "false"), actor,
                      DIRECTIONS[tile.direction].opposite)
         ELSE Forward(L, actor, tile.direction)
    ELSE Choose(DirectionPreference(L, actor), actor)

\* second pass: the roster in reverse order
RECURSIVE SecondPass(_, _, _)
SecondPass(L, i, p1_primary_direction) ==
    IF i < 0 \/ L.thrown # "none" THEN L
    ELSE IF L.tile[Actor(L, i)].cell = NullCell \/ L.tile[Actor(L, i)].movement_cooldown > 0
    THEN SecondPass(L, i - 1, p1_primary_direction)
    ELSE SecondPass(Decide(Visit(L, 2, i), Actor(L, i), p1_primary_direction),
                    i - 1, p1_primary_direction)

\* third pass: the player slapping what is next to the cell it leaves
RECURSIVE Slap(_, _, _, _, _, _)
Slap(L, actor, dir2, tiles, could_push, i) ==
    IF i > Len(tiles) \/ L.thrown # "none" THEN L
    ELSE IF could_push /\ can_push(L, actor, tiles[i], dir2)
    THEN Slap(Invoke(L, "attempt_step", <<tiles[i], dir2>>),
              actor, dir2, tiles, could_push, i + 1)
    ELSE Slap(L, actor, dir2, tiles, could_push, i + 1)

\* third pass: the player's move was asked for and did not happen
MarkBlocked(L, actor, p1_primary_direction) ==
    IF L.thrown = "none" /\ actor = L.player /\ p1_primary_direction \in Dirs /\ L.ret # 1
    THEN [L EXCEPT !.tile[actor].is_blocked = "true"]
    ELSE L

\* third pass: the player bumping the cell next to the one it left
SlapFrom(L, actor, old_cell) ==
    IF L.thrown # "none" THEN L
    ELSE LET dir2 == L.tile[actor].secondary_direction IN
         IF TypeOf(L, actor).is_player /\ dir2 \in Dirs
            /\ ~blocks_leaving(L, old_cell, actor, dir2)
         THEN LET neighbor == get_neighboring_cell(L, old_cell, dir2) IN
              IF neighbor = NullCell THEN L
              ELSE Slap(L, actor, dir2, L.cells[neighbor],
                        ~blocks_entering(L, neighbor, actor, dir2, TRUE), 1)
         ELSE L

\* third pass, one actor that is on the grid, not cooling down and decided
Move(L, actor, p1_primary_direction) ==
    SlapFrom(MarkBlocked(Invoke(L, "attempt_step", <<actor, L.tile[actor].decision>>),
                         actor, p1_primary_direction),
             actor, L.tile[actor].cell)

\* third pass: the roster in reverse order
RECURSIVE ThirdPass(_, _, _)
ThirdPass(L, i, p1_primary_direction) ==
    IF i < 0 \/ L.thrown # "none" THEN L
    ELSE LET tile == L.tile[Actor(L, i)] IN
         IF tile.cell = NullCell \/ tile.movement_cooldown > 0 \/ tile.decision \notin Dirs
         THEN ThirdPass(L, i - 1, p1_primary_direction)
         ELSE ThirdPass(Move(Visit(L, 3, i), Actor(L, i), p1_primary_direction),
                        i - 1, p1_primary_direction)

\* the compaction recording the index of the old roster for the reinsertion
RECURSIVE Compact_old_index(_, _, _, _)
Compact_old_index(L, old, kept, i) ==
    IF i >= Len(old) THEN [L EXCEPT !.actors = kept]
    ELSE LET actor == old[i + 1] IN
         IF L.tile[actor].cell # NullCell
         THEN Compact_old_index(L, old, Append(kept, actor), i + 1)
         ELSE Compact_old_index(PushUndo(L, UndoOp("actors_splice", actor, 0, "", i, 0)),
                                old, kept, i + 1)

\* stripping destroyed actors out of the roster: kept holds the survivors
\* seen so far (p is its length), i is the 0-based index into the old roster
RECURSIVE Compact(_, _, _, _)
Compact(L, old, kept, i) ==
    IF i >= Len(old) THEN [L EXCEPT !.actors = kept]
    ELSE LET actor == old[i + 1] IN
         IF L.tile[actor].cell # NullCell
         THEN Compact(L, old, Append(kept, actor), i + 1)
         ELSE Compact(PushUndo(L, UndoOp("actors_splice", actor, 0, "", Len(kept), 0)),
                      old, kept, i + 1)

\* advancing the clock: the time has been taken off
TimeUp(L) == IF L.time_remaining <= 0 THEN fail(L, "time") ELSE L

\* the clock running on while the timer is paused
Clock_ignores_pause(L) ==
    IF L.thrown # "none" THEN L
    ELSE IF L.time_remaining # NullN
    THEN TimeUp([PushUndo(L, UndoOp("clock_time", 0, 0, "", L.tic_counter, L.time_remaining))
                    EXCEPT !.tic_counter = @ + 1, !.time_remaining = @ - 1])
    ELSE [PushUndo(L, UndoOp("clock", 0, 0, "", L.tic_counter, 0))
            EXCEPT !.tic_counter = @ + 1]

\* advancing the clock
Clock(L) ==
    IF L.thrown # "none" THEN L
    ELSE IF L.time_remaining # NullN /\ ~L.timer_paused
    THEN TimeUp([PushUndo(L, UndoOp("clock_time", 0, 0, "", L.tic_counter, L.time_remaining))
                    EXCEPT !.tic_counter = @ + 1, !.time_remaining = @ - 1])
    ELSE [PushUndo(L, UndoOp("clock", 0, 0, "", L.tic_counter, 0))
            EXCEPT !.tic_counter = @ + 1]

\* _advance_tic: what is set before the first pass
BeginTic(L, p1_secondary_direction) ==
    [set_prop(L, L.player, "secondary_direction", p1_secondary_direction)
        EXCEPT !.player_leaving_cell = L.tile[L.player].cell,
               !.tile[L.player].is_blocked = "false",
               !.visited = <<>>,
               !.tried = <<>>]

\* _advance_tic: the player stops pushing between movements
ResetPushing(L) ==
    IF L.thrown = "none" /\ L.tile[L.player].movement_cooldown <= 0
    THEN [L EXCEPT !.tile[L.player].is_pushing = "false"]
    ELSE L

\* _advance_tic: each pass walks the roster as it is when the pass starts
TickAll(L) == FirstPass(L, Len(L.actors) - 1)

\* the second pass walking the roster from its first entry to its last
RECURSIVE SecondPassForward(_, _, _)
SecondPassForward(L, i, p1_primary_direction) ==
    IF i >= Len(L.actors) \/ L.thrown # "none" THEN L
    ELSE IF L.tile[Actor(L, i)].cell = NullCell \/ L.tile[Actor(L, i)].movement_cooldown > 0
    THEN SecondPassForward(L, i + 1, p1_primary_direction)
    ELSE SecondPassForward(Decide(Visit(L, 2, i), Actor(L, i), p1_primary_direction),
                           i + 1, p1_primary_direction)

DecideAll_forward(L, p1_primary_direction) ==
    SecondPassForward(L, 0, p1_primary_direction)

DecideAll(L, p1_primary_direction) ==
    SecondPass(L, Len(L.actors) - 1, p1_primary_direction)

MoveAll(L, p1_primary_direction) ==
    ThirdPass(L, Len(L.actors) - 1, p1_primary_direction)

\* _advance_tic: stripping destroyed actors out of the roster
Compaction(L) ==
    IF L.thrown # "none" THEN L ELSE Compact(L, L.actors, <<>>, 0)

\* _advance_tic with the wiring brought up to date after the movement pass
advance_tic_inner_wiring_last(L, p1_primary_direction, p1_secondary_direction) ==
    Clock(
        Compaction(
            update_wiring(
                MoveAll(
                    DecideAll(
                        ResetPushing(
                            RunSteppers(TickAll(BeginTic(L, p1_secondary_direction)), 1)),
                        p1_primary_direction),
                    p1_primary_direction))))

\* Level._advance_tic(p1_primary_direction, p1_secondary_direction)
advance_tic_inner(L, p1_primary_direction, p1_secondary_direction) ==
    Clock(
        Compaction(
            MoveAll(
                DecideAll(
                    ResetPushing(
                        update_wiring(
                            RunSteppers(TickAll(BeginTic(L, p1_secondary_direction)), 1))),
                    p1_primary_direction),
                p1_primary_direction)))

\* a method call on the level
Invoke(L, method, args) ==
    CASE method = "on_arrive" -> on_arrive(L, args[1], args[2])
      [] method = "step_on_cell" -> step_on_cell(L, args[1], args[2])
      [] method = "move_to" -> move_to(L, args[1], args[2], args[3])
      [] method = "attempt_step" -> attempt_step(L, args[1], args[2])
      [] method = "_advance_tic" -> advance_tic_inner(L, args[1], args[2])

\* advance_tic: the end of the tic, where the commit is skipped when the game
\* ended in it
EndTicUncommitted(L) ==
    IF L.thrown = "GameEnded" THEN [L EXCEPT !.thrown = "none", !.cell_steppers = <<>>]
    ELSE IF L.thrown # "none" THEN [L EXCEPT !.cell_steppers = <<>>]
    ELSE commit([L EXCEPT !.cell_steppers = <<>>])

\* advance_tic: the end of the tic; GameEnded is swallowed, anything else
\* propagates and skips the commit
EndTic(L) ==
    IF L.thrown = "GameEnded"
    THEN commit([L EXCEPT !.thrown = "none", !.cell_steppers = <<>>])
    ELSE IF L.thrown # "none" THEN [L EXCEPT !.cell_steppers = <<>>]
    ELSE commit([L EXCEPT !.cell_steppers = <<>>])

\* advance_tic without the check of the state
advance_tic_unguarded(L, p1_primary_direction, p1_secondary_direction) ==
    EndTic(Invoke(L, "_advance_tic", <<p1_primary_direction, p1_secondary_direction>>))

\* Level.advance_tic(p1_primary_direction, p1_secondary_direction)
advance_tic(L, p1_primary_direction, p1_secondary_direction) ==
    IF L.state # "playing" THEN L
    ELSE EndTic(Invoke(L, "_advance_tic", <<p1_primary_direction, p1_secondary_direction>>))

\* remove_tile called for each tile of a set, the lowest first
RECURSIVE RemoveAll(_, _)
RemoveAll(L, tiles) ==
    IF tiles = {} THEN L
    ELSE RemoveAll(remove_tile(L, CHOOSE t \in tiles : \A u \in tiles : t <= u),
                   tiles \ {CHOOSE t \in tiles : \A u \in tiles : t <= u})

\* a method of the level called by the hook of a tile (tiletypes.js)
CallHook(L, h) ==
    CASE h.name = "none" -> L
      [] h.name = "pause_timer" -> pause_timer(L)
      [] h.name = "adjust_timer" -> adjust_timer(L, h.a)
      [] h.name = "adjust_bonus" -> adjust_bonus(L, h.a, h.b)
      [] h.name = "remove_tile" -> RemoveAll(L, h.a)
      [] h.name = "get_force_floor_direction" ->
            IF h.a = 1 THEN get_force_floor_direction(L)
            ELSE get_force_floor_direction(get_force_floor_direction(L))

\* Level.advance_tic, in a tic in which a tile calls a method of the level:
\* the call is made inside the try block, before the passes
advance_tic_hooked(L, p1_primary_direction, p1_secondary_direction, h) ==
    IF L.state # "playing" THEN L
    ELSE EndTic(Invoke(CallHook(L, h), "_advance_tic",
                       <<p1_primary_direction, p1_secondary_direction>>))

----------------------------------------------------------------------------
(* The driver's calls *)

\* no method called by a tile in the tic
NoHook == [name |-> "none", a |-> 0, b |-> 0]

Call(name, p1, p2, L) ==
    [name |-> name, p1 |-> p1, p2 |-> p2, ret |-> L.ret, thrown |-> L.thrown,
     hook |-> NoHook]

\* the Level object the caller is left with: the exception has been delivered
Settled(L) == [L EXCEPT !.thrown = "none"]

NoCall ==
    [name |-> "restart", p1 |-> "null", p2 |-> "null", ret |-> 0, thrown |-> "none",
     hook |-> NoHook]

\* the tiles some object of the program still refers to: those in a cell, in
\* the roster, the player, and those captured by a recorded closure; every
\* other Tile object is unreachable and its slot can be used again
Referenced(L) ==
    {L.player}
    \cup {L.actors[i] : i \in 1..Len(L.actors)}
    \cup UNION {{L.cells[c][i] : i \in 1..Len(L.cells[c])} : c \in DOMAIN L.cells}
    \cup UNION {{L.undo_stack[e][i].t : i \in 1..Len(L.undo_stack[e])} :
                    e \in 1..Len(L.undo_stack)}
    \cup {L.pending_undo[i].t : i \in 1..Len(L.pending_undo)}

Collect(L) ==
    LET referenced == Referenced(L) IN
    [L EXCEPT !.tile = [t \in DOMAIN L.tile |->
                           IF t \in referenced THEN L.tile[t] ELSE FreeTile]]

\* the part of the game state that the undo log is meant to restore
Logged(L) ==
    [cells |-> L.cells,
     tiles |-> [t \in DOMAIN L.tile |->
                  [cell |-> L.tile[t].cell,
                   direction |-> L.tile[t].direction,
                   movement_cooldown |-> L.tile[t].movement_cooldown,
                   slide_mode |-> L.tile[t].slide_mode,
                   animation_progress |-> L.tile[t].animation_progress,
                   animation_speed |-> L.tile[t].animation_speed,
                   previous_cell |-> L.tile[t].previous_cell]],
     actors |-> L.actors,
     rng1 |-> L.rng1,
     rng2 |-> L.rng2,
     blob_modifier |-> L.blob_modifier,
     tic_counter |-> L.tic_counter,
     time_remaining |-> L.time_remaining,
     timer_paused |-> L.timer_paused,
     chips_remaining |-> L.chips_remaining,
     bonus_points |-> L.bonus_points,
     state |-> L.state,
     fail_reason |-> L.fail_reason]

\* history kept next to the undo stack: one snapshot per committed entry
Snap(L, ndecisions) ==
    [logged |-> Logged(L), ndecisions |-> ndecisions,
     force_floor_direction |-> L.force_floor_direction]

LastN(seq, n) == IF Len(seq) > n THEN SubSeq(seq, Len(seq) - n + 1, Len(seq)) ELSE seq

\* the blobs of the roster that took a decision in the tic just run
BlobDecisions(L) ==
    LET blobs == SelectSeq(L.actors, LAMBDA t : L.tile[t].type = "blob"
                                                /\ L.tile[t].decision \in Dirs)
    IN  [i \in 1..Len(blobs) |-> L.tile[blobs[i]].decision]

\* the driver has called level.advance_tic(p1, p2) and L came back
TicDone(p1, p2, L) ==
    /\ level' = Collect(Settled(L))
    /\ call' = Call("advance_tic", p1, p2, L)
    /\ pre' = level
    /\ snaps' = IF level.state = "playing" /\ L.thrown = "none"
                THEN LastN(Append(snaps, Snap(level, Len(decisions))), Len(L.undo_stack))
                ELSE snaps
    /\ decisions' = IF level.state = "playing" THEN decisions \o BlobDecisions(L)
                    ELSE decisions
    /\ UNCHANGED <<outs, undos, random_byte, neighbors, selection>>

\* the driver calls level.advance_tic(p1, p2)
AdvanceTic(p1, p2) == TicDone(p1, p2, advance_tic(level, p1, p2))

\* the driver has called level.undo() and L came back
UndoDone(L) ==
    /\ level' = Collect(Settled(L))
    /\ call' = Call("undo", "null", "null", L)
    /\ pre' = level
    /\ snaps' = IF L.thrown = "none" THEN Pop(snaps) ELSE snaps
    /\ decisions' = IF L.thrown = "none"
                    THEN SubSeq(decisions, 1, snaps[Len(snaps)].ndecisions)
                    ELSE decisions
    /\ undos' = undos + 1
    /\ UNCHANGED <<outs, random_byte, neighbors, selection>>

\* the driver calls level.undo()
Undo == UndoDone(undo(level))

\* the values of Math.floor(Math.random() * 256) that are tried
RandomBytes == 0..MaxSeed

\* the keys the driver may pass: no key, east, south, or east with south as
\* the secondary direction
Inputs ==
    {<<"null", "null">>, <<"east", "null">>, <<"south", "null">>, <<"east", "south">>}

----------------------------------------------------------------------------
(* Specification Spec: the game played on the three small levels, with every *)
(* input, undo allowed at any time                                           *)

Levels == {PushLevel, BlobLevel, TrapLevel}

Init ==
    /\ random_byte \in RandomBytes
    /\ \E stored \in Levels : \E instantly \in BOOLEAN :
          /\ stored.blob_behavior = 0 => random_byte = 0
          /\ instantly => stored = PushLevel
          /\ level = restart(stored, instantly, random_byte)
    /\ call = NoCall
    /\ pre = level
    /\ snaps = <<>>
    /\ outs = <<>>
    /\ decisions = <<>>
    /\ undos = 0
    /\ neighbors = <<>>
    /\ selection = NewSelection

Tic ==
    /\ level.state = "playing" => level.tic_counter < MaxTic
    /\ \E in \in Inputs : AdvanceTic(in[1], in[2])

\* the driver rewinds, a bounded number of times in a game
Rewind ==
    /\ undos < MaxUndo
    /\ Undo

Next == Tic \/ Rewind

Spec == Init /\ [][Next]_vars

----------------------------------------------------------------------------
(* Specification SpecLong: a level with nothing but the player, left idle    *)
(* for more tics than the undo stack holds                                   *)

InitLong ==
    /\ random_byte = 0
    /\ \E limit \in {0, 11} : level = restart(IdleLevel(0, limit), FALSE, random_byte)
    /\ call = NoCall
    /\ pre = level
    /\ snaps = <<>>
    /\ outs = <<>>
    /\ decisions = <<>>
    /\ undos = 0
    /\ neighbors = <<>>
    /\ selection = NewSelection

TicLong ==
    /\ level.tic_counter < MaxLongTic
    /\ AdvanceTic("null", "null")

UndoLong ==
    /\ undos < MaxLongUndo
    /\ Undo

NextLong == TicLong \/ UndoLong

SpecLong == InitLong /\ [][NextLong]_vars

----------------------------------------------------------------------------
(* Claims settled under Spec and SpecLong *)

\* the last call was advance_tic, made while the game was being played
PlayedTic == call.name = "advance_tic" /\ pre.state = "playing"

\* C1 as stated: an undo() that follows its advance_tic restores every logged
\* field (the cells' tile lists, the tiles' cell, direction, cooldown, slide
\* mode and animation fields, the roster, the PRNG registers, the blob
\* modifier, the counters, state and fail_reason) to the value it had before
\* that tic; k tics followed by k undos are k such steps.
C1_UndoRestoresLoggedState ==
    [][(call'.name = "undo" /\ call'.thrown = "none")
          => Logged(level') = snaps[Len(snaps)].logged]_vars

\* C2: advance_tic called while the state is not "playing" changes nothing:
\* no field of the level, of a cell or of a tile, neither tic_counter nor the
\* PRNG registers, and nothing is pushed onto the undo stack.
C2_NoOpUnlessPlaying ==
    (call.name = "advance_tic" /\ pre.state # "playing") => level = pre

C2_Witness ==
    /\ call.name = "advance_tic"
    /\ pre.state \in {"success", "failure"}
    /\ Len(pre.undo_stack) > 0

C4_UndoStackBounded ==
    /\ Len(level.undo_stack) <= UndoCap
    /\ (PlayedTic /\ Len(pre.undo_stack) = UndoCap) =>
          /\ Len(level.undo_stack) = UndoCap
          /\ SubSeq(level.undo_stack, 1, UndoCap - 1) = Tail(pre.undo_stack)
          /\ level.undo_stack[UndoCap] # pre.undo_stack[UndoCap]

C4_Witness == PlayedTic /\ Len(pre.undo_stack) = UndoCap /\ level.tic_counter > UndoCap

\* C8 as stated: in a level with blob mode "4 patterns" the first four
\* decisions of the blob are the entries of the direction table at indices
\* (0+0), (1+1), (2+2), (3+3) mod 4, whatever the run.
C8_FirstFourDecisions ==
    level.stored_level.blob_behavior = 1 =>
        \A i \in 1..Min(4, Len(decisions)) :
            decisions[i] = DirNames[(((i - 1) + (i - 1)) % 4) + 1]

\* the cells whose list holds tile t, with multiplicity
Holders(L, t) ==
    UNION {{<<c, i>> : i \in {j \in 1..Len(L.cells[c]) : L.cells[c][j] = t}} :
              c \in DOMAIN L.cells}

\* C9: after every advance_tic and every undo, a tile with a cell reference
\* is exactly once in the list of that cell and in no other list, and every
\* tile in a cell's list refers to that cell.
C9_TileCellOwnership ==
    /\ \A t \in DOMAIN level.tile :
          (level.tile[t].type # "free" /\ level.tile[t].cell # NullCell)
              => \E i \in 1..Len(level.cells[level.tile[t].cell]) :
                    Holders(level, t) = {<<level.tile[t].cell, i>>}
    /\ \A c \in DOMAIN level.cells : \A i \in 1..Len(level.cells[c]) :
          level.tile[level.cells[c][i]].cell = c

C9_Witness ==
    /\ call.name = "undo"
    /\ call.thrown = "none"
    /\ \E t \in DOMAIN level.tile :
          /\ pre.tile[t].type # "free"
          /\ pre.tile[t].cell = NullCell
          /\ level.tile[t].cell # NullCell

\* C10 as stated: after every committed tic and every undo the roster holds
\* exactly the actor tiles that are on the grid and not stuck, each once.
C10_RosterIsLiveActors ==
    (call.name \in {"advance_tic", "undo"} /\ call.thrown = "none") =>
        /\ \A i, j \in 1..Len(level.actors) :
              level.actors[i] = level.actors[j] => i = j
        /\ {level.actors[i] : i \in 1..Len(level.actors)}
              = {t \in DOMAIN level.tile :
                    /\ level.tile[t].type # "free"
                    /\ TypeOf(level, t).is_actor
                    /\ level.tile[t].cell # NullCell
                    /\ level.tile[t].stuck # "true"}

----------------------------------------------------------------------------
(* Specification SpecRng: prng() and get_blob_modifier() called directly on *)
(* a freshly started level, for every blob mode                              *)

InitRng ==
    /\ random_byte \in RandomBytes
    /\ \E b \in 0..2 : level = restart(IdleLevel(b, 0), FALSE, random_byte)
    /\ call = NoCall
    /\ pre = level
    /\ snaps = <<>>
    /\ outs = <<>>
    /\ decisions = <<>>
    /\ undos = 0
    /\ neighbors = <<>>
    /\ selection = NewSelection

CallPrng ==
    /\ Len(level.pending_undo) < MaxRngCalls
    /\ LET L == prng(level) IN
          /\ level' = Settled(L)
          /\ call' = Call("prng", "null", "null", L)
          /\ outs' = Append(outs, L.ret)
    /\ pre' = level
    /\ UNCHANGED <<snaps, decisions, undos, random_byte, neighbors, selection>>

CallGetBlobModifier ==
    /\ Len(level.pending_undo) < MaxRngCalls
    /\ LET L == get_blob_modifier(level) IN
          /\ level' = Settled(L)
          /\ call' = Call("get_blob_modifier", "null", "null", L)
    /\ pre' = level
    /\ UNCHANGED <<snaps, outs, decisions, undos, random_byte, neighbors, selection>>

NextRng == CallPrng \/ CallGetBlobModifier

SpecRng == InitRng /\ [][NextRng]_vars

----------------------------------------------------------------------------
(* Claims settled under SpecRng *)

GoldenClaimed == <<0, 1, 3>>
GoldenActual == <<1, 3, 7>>

\* C5 as stated: from the zero seed the first three values returned by
\* prng() are 0, 1, 3.
C5_FirstOutputsAsClaimed ==
    \A i \in 1..Min(3, Len(outs)) : outs[i] = GoldenClaimed[i]

\* C5 (amended): from the zero seed, successive calls of prng() return a
\* fixed sequence whose first three values are 1, 3, 7.
C5_FirstOutputs ==
    \A i \in 1..Min(3, Len(outs)) : outs[i] = GoldenActual[i]

C5_Witness == call.name = "prng" /\ Len(outs) >= 3

\* C6 as stated: after any number of prng() calls from the zero seed both
\* registers hold values in 0..255 and every returned value is in 0..255.
C6_RegistersAre8Bit ==
    /\ level.rng1 \in 0..255
    /\ level.rng2 \in 0..255
    /\ \A i \in 1..Len(outs) : outs[i] \in 0..255

\* C7 as stated: in blob mode "4 patterns" get_blob_modifier() returns the
\* value the modifier had before the call and stores (that value + 1) mod 4.
C7_ReturnsValueBeforeIncrement ==
    (call.name = "get_blob_modifier" /\ pre.stored_level.blob_behavior = 1)
        => /\ call.ret = pre.blob_modifier
           /\ level.blob_modifier = (pre.blob_modifier + 1) % 4

----------------------------------------------------------------------------
(* Specification SpecStep: the game of Spec, in which attempt_step is also   *)
(* called on its own, as the tile types' hooks and the push of a block call  *)
(* it, for any actor on the grid and any direction                           *)

MaxStepCalls == 1    \* direct calls of attempt_step() in a game
MaxStepTic == 2      \* tics played in a game of the step specification

\* attempt_step(actor, direction) has been called and L came back
StepDone(actor, direction, L) ==
    /\ level' = Collect(Settled(L))
    /\ call' = Call("attempt_step", actor, direction, L)
    /\ pre' = level
    /\ outs' = Append(outs, L.ret)
    /\ UNCHANGED <<snaps, decisions, undos, random_byte, neighbors, selection>>

\* level.attempt_step(actor, direction), for an actor that is on the grid,
\* whether the roster lists it or not (an actor held by a cloner is not listed)
CallAttemptStep ==
    /\ level.state = "playing"
    /\ Len(outs) < MaxStepCalls
    /\ \E actor \in DOMAIN level.tile : \E direction \in Dirs :
          /\ TypeOf(level, actor).is_actor
          /\ level.tile[actor].cell # NullCell
          /\ StepDone(actor, direction,
                      Invoke(level, "attempt_step", <<actor, direction>>))

\* the driver plays a tic
TicStep ==
    /\ level.state = "playing" => level.tic_counter < MaxStepTic
    /\ \E in \in Inputs : AdvanceTic(in[1], in[2])

NextStep == TicStep \/ CallAttemptStep

SpecStep == Init /\ [][NextStep]_vars

\* the last call was attempt_step
Stepped == call.name = "attempt_step"

\* the cell the stepping actor was in, and its neighbour in the direction
StepFrom == pre.tile[call.p1].cell
StepGoal == get_neighboring_cell(pre, StepFrom, call.p2)

C11_WitnessGameEnded == Stepped /\ call.thrown = "GameEnded"

C11_WitnessEdge == Stepped /\ call.ret = 0 /\ StepGoal = NullCell

C11_WitnessDestroyed == Stepped /\ level.tile[call.p1].cell = NullCell

\* the step was asked of an actor in mid-movement, or of a stuck one
MidCooldown == Stepped /\ pre.tile[call.p1].movement_cooldown > 0
StuckStep ==
    Stepped /\ pre.tile[call.p1].movement_cooldown <= 0 /\ pre.tile[call.p1].stuck = "true"

\* C23 as stated: attempt_step on an actor that is in mid-cooldown or stuck
\* returns not-moved and leaves its cell, its direction and its cooldown as
\* they were
C23_RefusedStepChangesNothing ==
    (MidCooldown \/ StuckStep) =>
        /\ call.thrown = "none" /\ call.ret = 0
        /\ level.tile[call.p1].cell = pre.tile[call.p1].cell
        /\ level.tile[call.p1].direction = pre.tile[call.p1].direction
        /\ level.tile[call.p1].movement_cooldown = pre.tile[call.p1].movement_cooldown

\* C23, amended: attempt_step on an actor in mid-cooldown returns not-moved
\* and leaves its cell, direction and cooldown as they were; on a stuck actor
\* that is not in mid-cooldown it returns not-moved and leaves cell and
\* cooldown as they were, but the actor now faces the requested direction
C23_RefusedStepTurnsStuckActor ==
    /\ (MidCooldown \/ StuckStep) =>
          /\ call.thrown = "none" /\ call.ret = 0
          /\ level.tile[call.p1].cell = pre.tile[call.p1].cell
          /\ level.tile[call.p1].movement_cooldown = pre.tile[call.p1].movement_cooldown
    /\ MidCooldown => level.tile[call.p1].direction = pre.tile[call.p1].direction
    /\ StuckStep => level.tile[call.p1].direction = call.p2

\* a stuck actor turned by the call
C23_Witness ==
    StuckStep /\ level.tile[call.p1].direction # pre.tile[call.p1].direction

\* an actor in mid-movement asked to step another way
C23_WitnessCooldown ==
    MidCooldown /\ call.p2 # pre.tile[call.p1].direction

----------------------------------------------------------------------------
(* Collisions (move_to, fail) *)

\* the tiles of the player's cell, the player aside
Company(L) ==
    IF L.tile[L.player].cell = NullCell THEN {}
    ELSE {L.cells[L.tile[L.player].cell][i] :
              i \in 1..Len(L.cells[L.tile[L.player].cell])} \ {L.player}

\* C12: once the player and a monster are in one cell (whichever of them
\* moved) the game is lost with the monster's type name as the reason; once a
\* block is in the player's cell it is lost with the reason "squished"; and a
\* tic asked of the lost game changes nothing
C12_CollisionFails ==
    /\ \A t \in Company(level) :
          /\ TypeOf(level, t).is_monster =>
                level.state = "failure" /\ level.fail_reason = level.tile[t].type
          /\ TypeOf(level, t).is_block =>
                level.state = "failure" /\ level.fail_reason = "squished"
    /\ (call.name = "advance_tic" /\ pre.state = "failure") => level = pre

\* a tic asked after a collision has ended the game
C12_Witness ==
    /\ call.name = "advance_tic" /\ pre.state = "failure"
    /\ \E t \in Company(level) : TypeOf(level, t).is_monster \/ TypeOf(level, t).is_block

\* the three collisions: the player walks into the monster, the monster into
\* the player, a block into the player
C12_WitnessPlayerMoved ==
    /\ Stepped /\ call.p1 = level.player
    /\ \E t \in Company(level) : TypeOf(level, t).is_monster

C12_WitnessMonsterMoved ==
    /\ Stepped /\ TypeOf(level, call.p1).is_monster
    /\ call.p1 \in Company(level)

C12_WitnessSquished ==
    \E t \in Company(level) : TypeOf(level, t).is_block

----------------------------------------------------------------------------
(* Specification SpecTimer: the player next to the exit, on a timed and on   *)
(* an untimed level; in each tic a tile may call one of the scoring and      *)
(* timer methods of the level, and the driver reads the scorecard            *)

MaxTimerTic == 3     \* tics played in a game of the timer specification

\* the calls the tiles make: pause_timer(), adjust_timer(dt), adjust_bonus(add,
\* mult)
Hooks ==
    {NoHook,
     [name |-> "pause_timer", a |-> 0, b |-> 0],
     [name |-> "adjust_timer", a |-> -1, b |-> 0],
     [name |-> "adjust_timer", a |-> 0, b |-> 0],
     [name |-> "adjust_timer", a |-> 1, b |-> 0],
     [name |-> "adjust_bonus", a |-> 1, b |-> 1],
     [name |-> "adjust_bonus", a |-> 0, b |-> 2]}

InitTimer ==
    /\ random_byte = 0
    /\ \E limit \in {0, 1} : level = restart(ExitLevel(limit), FALSE, random_byte)
    /\ call = NoCall
    /\ pre = level
    /\ snaps = <<>>
    /\ outs = <<>>
    /\ decisions = <<>>
    /\ undos = 0
    /\ neighbors = <<>>
    /\ selection = NewSelection

\* the driver has called level.advance_tic(p1, p2), a tile has called h in
\* the tic, and L came back
HookedTicDone(p1, p2, h, L) ==
    /\ level' = Collect(Settled(L))
    /\ call' = [Call("advance_tic", p1, p2, L) EXCEPT !.hook = h]
    /\ pre' = level
    /\ snaps' = IF level.state = "playing" /\ L.thrown = "none"
                THEN LastN(Append(snaps, Snap(level, Len(decisions))), Len(L.undo_stack))
                ELSE snaps
    /\ UNCHANGED <<outs, decisions, undos, random_byte, neighbors, selection>>

HookedTic ==
    /\ level.state = "playing" => level.tic_counter < MaxTimerTic
    /\ \E h \in Hooks : \E p1 \in {"null", "east"} :
          /\ level.state # "playing" => h = NoHook /\ p1 = "null"
          /\ HookedTicDone(p1, "null", h, advance_tic_hooked(level, p1, "null", h))

\* the driver calls level.get_scorecard(), which changes nothing
CallGetScorecard ==
    /\ call.name # "get_scorecard"
    /\ call' = Call("get_scorecard", "null", "null", get_scorecard(level))
    /\ pre' = level
    /\ UNCHANGED <<level, snaps, outs, decisions, undos, random_byte, neighbors, selection>>

NextTimer == HookedTic \/ CallGetScorecard

SpecTimer == InitTimer /\ [][NextTimer]_vars

\* the level as the tile's call left it, before the passes of the tic
Hooked == CallHook(pre, call.hook)

\* the tic just played went as far as the clock
ClockReached == PlayedTic /\ level.tic_counter # pre.tic_counter

\* C13: a played tic that reaches the clock adds exactly 1 to tic_counter (a
\* tic that adds nothing was ended by GameEnded before the clock); on a timed
\* level whose timer is not paused it takes exactly 1 from time_remaining, and
\* the game is lost with reason "time" in the tic in which time_remaining
\* reaches 0; on an untimed level, or while the timer is paused,
\* time_remaining is left as it was
C13_ClockPhase ==
    PlayedTic =>
        /\ level.tic_counter \in {pre.tic_counter, pre.tic_counter + 1}
        /\ level.tic_counter = pre.tic_counter => level.state # "playing"
        /\ ClockReached =>
              IF Hooked.time_remaining # NullN /\ ~Hooked.timer_paused
              THEN /\ level.time_remaining = Hooked.time_remaining - 1
                   /\ level.time_remaining = 0 <=>
                         (level.state = "failure" /\ level.fail_reason = "time")
                   /\ level.time_remaining > 0 => level.state = "playing"
              ELSE /\ level.time_remaining = Hooked.time_remaining
                   /\ level.state = "playing"

\* the clock runs out
C13_Witness ==
    /\ ClockReached
    /\ level.time_remaining = 0 /\ level.state = "failure" /\ level.fail_reason = "time"

\* the clock ticks with the timer paused, on an untimed level, on a timed one
C13_WitnessPaused == ClockReached /\ Hooked.timer_paused

C13_WitnessUntimed == ClockReached /\ Hooked.time_remaining = NullN

C13_WitnessTimed == ClockReached /\ level.time_remaining > 0 /\ ~level.timer_paused

\* the tics left on the clock, 0 on an untimed level
TicsLeft == IF level.time_remaining = NullN THEN 0 ELSE level.time_remaining

\* C14: get_scorecard() returns none unless the state is "success"; in state
\* "success" its time is time_remaining in whole seconds (20 tics) rounded
\* up, 0 on an untimed level, abstime is tic_counter, bonus is bonus_points and
\* score is level_number * 500 + time * 10 + bonus_points
C14_Scorecard ==
    call.name = "get_scorecard" =>
        IF level.state # "success" THEN call.ret = NullN
        ELSE /\ call.ret.time * 20 >= TicsLeft
             /\ (call.ret.time - 1) * 20 < TicsLeft
             /\ call.ret.time >= 0
             /\ call.ret.abstime = level.tic_counter
             /\ call.ret.bonus = level.bonus_points
             /\ call.ret.score = level.stored_level.number * 500 + call.ret.time * 10
                                 + level.bonus_points

\* the scorecard of a game won with part of a second left and some bonus
C14_Witness ==
    /\ call.name = "get_scorecard" /\ level.state = "success"
    /\ TicsLeft % 20 # 0 /\ level.bonus_points > 0

\* the scorecard asked for when the game is not won, and on an untimed level
C14_WitnessNone == call.name = "get_scorecard" /\ level.state \in {"playing", "failure"}

C14_WitnessUntimed ==
    call.name = "get_scorecard" /\ level.state = "success" /\ level.time_remaining = NullN

\* a tile called adjust_timer(dt) on an untimed level in the tic just played
AdjustedUntimed ==
    PlayedTic /\ call.hook.name = "adjust_timer" /\ pre.time_remaining = NullN

\* C15 as stated: adjust_timer(dt) on an untimed level is ignored, for every
\* dt: time_remaining stays none, the state stays "playing", nothing is raised
C15_AdjustIgnoredWhenUntimed ==
    AdjustedUntimed =>
        /\ Hooked.time_remaining = NullN
        /\ Hooked.state = "playing"
        /\ Hooked.thrown = "none"

\* C15, amended: adjust_timer(dt) makes an untimed level a timed one with
\* max(0, dt * 20) tics on the clock (the timer of an untimed level is never
\* paused); with dt <= 0 that is 0, the game is lost at once with reason
\* "time" and the rest of the tic is skipped; with dt > 0 the state stays
\* "playing" and the clock of that tic already counts the new time down
C15_AdjustMakesUntimedTimed ==
    AdjustedUntimed =>
        /\ ~pre.timer_paused
        /\ Hooked.time_remaining = Max(0, call.hook.a * 20)
        /\ IF call.hook.a <= 0
           THEN /\ Hooked.thrown = "GameEnded"
                /\ level.state = "failure" /\ level.fail_reason = "time"
                /\ level.time_remaining = 0
                /\ level.tic_counter = pre.tic_counter
           ELSE /\ Hooked.thrown = "none" /\ Hooked.state = "playing"
                /\ ClockReached => level.time_remaining = call.hook.a * 20 - 1

\* the timer of an untimed level taken down, and put up
C15_Witness == AdjustedUntimed /\ call.hook.a <= 0

C15_WitnessUp == AdjustedUntimed /\ call.hook.a > 0 /\ ClockReached

----------------------------------------------------------------------------
(* Specification SpecCell: Cell._remove called on the cells of the three     *)
(* levels as restart built them, with any tile of the level                  *)

MaxCellCalls == 2    \* calls of Cell._remove made on a level

\* cell c's _remove(t) has been called and L came back; the caller keeps its
\* reference to the tile
CellRemoveDone(c, t, L) ==
    /\ level' = Settled(L)
    /\ call' = Call("_remove", c, t, L)
    /\ pre' = level
    /\ outs' = Append(outs, L.ret)
    /\ UNCHANGED <<snaps, decisions, undos, random_byte, neighbors, selection>>

CallCellRemove ==
    /\ Len(outs) < MaxCellCalls
    /\ \E c \in DOMAIN level.cells : \E t \in 1..level.ntiles :
          CellRemoveDone(c, t, Cell_remove(level, c, t))

NextCell == CallCellRemove

SpecCell == Init /\ [][NextCell]_vars

\* the last call was a cell's _remove of a tile that the cell did not hold
RemovedAbsent ==
    /\ call.name = "_remove"
    /\ \A i \in 1..Len(pre.cells[call.p1]) : pre.cells[call.p1][i] # call.p2

\* C16: _remove of a tile that the cell does not hold throws, and the cell's
\* list of tiles and the tile's reference to its cell are as they were (as is
\* everything else)
C16_RemoveAbsentThrows ==
    RemovedAbsent =>
        /\ call.thrown = "Error"
        /\ level.cells[call.p1] = pre.cells[call.p1]
        /\ level.tile[call.p2].cell = pre.tile[call.p2].cell
        /\ level = pre

\* a tile asked of a cell while it is in another cell
C16_Witness ==
    /\ RemovedAbsent /\ call.thrown = "Error"
    /\ pre.tile[call.p2].cell \notin {NullCell, call.p1}

\* a tile asked of the cell it has already been removed from
C16_WitnessTwice == RemovedAbsent /\ pre.tile[call.p2].cell = NullCell /\ Len(outs) = 2

----------------------------------------------------------------------------
(* Specification SpecWire: the game played on the wired level                *)

MaxWireTic == 6      \* tics played in a game of the wiring specification

InitWire ==
    /\ random_byte = 0
    /\ level = restart(WireLevel, FALSE, random_byte)
    /\ call = NoCall
    /\ pre = level
    /\ snaps = <<>>
    /\ outs = <<>>
    /\ decisions = <<>>
    /\ undos = 0
    /\ neighbors = <<>>
    /\ selection = NewSelection

TicWire ==
    /\ level.tic_counter < MaxWireTic
    /\ \E p1 \in {"null", "east", "south", "west"} : AdvanceTic(p1, "null")

NextWire == TicWire

SpecWire == InitWire /\ [][NextWire]_vars

\* the bit of direction d is set in the mask m
HasBit(m, d) == BitAnd(m, DIRECTIONS[d].bit) # 0

\* cell c holds a power source that emitted on its edge d at the last update
Emits(c, d) ==
    \E k \in 1..Len(level.power_sources) :
        /\ level.tile[level.power_sources[k]].cell = c
        /\ HasBit(level.tile[level.power_sources[k]].emitting_edges, d)

\* the cell that the current of cell n flows to in direction d: the matching
\* tunnel when the wire of n has a tunnel on that edge, or else the neighbour
Target(n, d) ==
    IF /\ get_wired_tile(level, n) # 0
       /\ HasBit(Bits(level.tile[get_wired_tile(level, n)].wire_tunnel_directions), d)
    THEN FindTunnel(level, CellX(level, n), CellY(level, n), d)
    ELSE get_neighboring_cell(level, n, d)

\* power arrived at the edge d of cell c from the cell on that side
Arrived(c, d) ==
    \E n \in DOMAIN level.cells :
        /\ HasBit(level.powered_edges[n], DIRECTIONS[d].opposite)
        /\ Target(n, DIRECTIONS[d].opposite) = c

\* the wire of cell c includes the edge d and was reached through an edge of
\* its own
Carried(c, d) ==
    /\ get_wired_tile(level, c) # 0
    /\ HasBit(Bits(level.tile[get_wired_tile(level, c)].wire_directions), d)
    /\ \E d2 \in Dirs :
          /\ HasBit(Bits(level.tile[get_wired_tile(level, c)].wire_directions), d2)
          /\ Arrived(c, d2)

\* the cells that power flows to from the cells of the set, n rounds on
RECURSIVE Fed(_, _)
Fed(cells, n) ==
    IF n = 0 THEN cells
    ELSE Fed(cells \cup {t \in DOMAIN level.cells :
                           \E c \in cells : \E d \in Dirs :
                               HasBit(level.powered_edges[c], d) /\ Target(c, d) = t},
             n - 1)

\* the cells of the emitters that emit
Emitters == {c \in DOMAIN level.cells : \E d \in Dirs : Emits(c, d)}

\* C17: a bit of a cell's powered_edges is set only if the cell holds an
\* emitter emitting on that edge, or power arrived at that edge from the cell
\* (or the tunnel partner) on that side, or the cell's wire includes the edge
\* and was reached by power through one of its own edges; and a cell that no
\* emitter's power flows to has the mask 0
C17_WiringSound ==
    /\ \A c \in DOMAIN level.cells : \A d \in Dirs :
          HasBit(level.powered_edges[c], d) => Emits(c, d) \/ Arrived(c, d) \/ Carried(c, d)
    /\ \A c \in DOMAIN level.cells :
          level.powered_edges[c] # 0 => c \in Fed(Emitters, Cardinality(DOMAIN level.cells))

\* the circuit of the wired level with the button held down: the unwired
\* trap is marked on its east edge, the corner and the wire end are live, the
\* crossing carries the current straight through, and the wire that is
\* connected to nothing is dead
C17_Witness ==
    /\ PlayedTic /\ level.stored_level.number = 6
    /\ level.powered_edges = <<0, 2, 12, 0, 2, 10, 9, 0>>

\* the button let go: the power is off again
C17_WitnessOff ==
    /\ PlayedTic /\ level.stored_level.number = 6
    /\ \E c \in DOMAIN pre.cells : pre.powered_edges[c] # 0
    /\ \A c \in DOMAIN level.cells : level.powered_edges[c] = 0

\* the cells holding a trap that went from unpowered to powered in the tic
\* just played
TrapsPowered ==
    {c \in DOMAIN level.cells :
        /\ PlayedTic /\ call.thrown = "none"
        /\ pre.powered_edges[c] = 0 /\ level.powered_edges[c] # 0
        /\ \E i \in 1..Len(pre.cells[c]) : pre.tile[pre.cells[c][i]].type = "trap"}

\* the actors that were in cell c when the tic began
ActorsIn(c) ==
    {pre.cells[c][i] : i \in {j \in 1..Len(pre.cells[c]) : TypeOf(pre, pre.cells[c][j]).is_actor}}

\* C18: the wiring is brought up to date after the tic's arrivals (with their
\* deferred step-on-cell reactions) and before the decisions and the movement
\* pass: an actor in a trap whose cell becomes powered in a tic is not stuck
\* when that tic ends, even when it arrived on the trap in that very tic, and
\* the player so released moves in the same tic when a key is held
C18_WiringBeforeMovement ==
    \A c \in TrapsPowered : \A actor \in ActorsIn(c) :
        /\ level.tile[actor].stuck # "true"
        /\ (actor = level.player /\ call.p1 = "east") => level.tile[actor].cell # c

\* the player arrives on the trap in the tic in which the block it pushed
\* arrives on the button, and walks on in that tic
C18_Witness ==
    \E c \in TrapsPowered :
        /\ level.player \in ActorsIn(c)
        /\ pre.tile[level.player].movement_cooldown > 0
        /\ level.tile[level.player].cell # c

----------------------------------------------------------------------------
(* Specification SpecRoster: a level with three blocks, any of which the     *)
(* tiles may remove from the grid in a tic; undo allowed at any time         *)

MaxRosterTic == 2    \* tics played in a game of the roster specification
MaxRosterUndo == 2   \* undos made in a game of the roster specification

InitRoster ==
    /\ random_byte = 0
    /\ level = restart(RosterLevel, FALSE, random_byte)
    /\ call = NoCall
    /\ pre = level
    /\ snaps = <<>>
    /\ outs = <<>>
    /\ decisions = <<>>
    /\ undos = 0
    /\ neighbors = <<>>
    /\ selection = NewSelection

\* the actors that a tile may remove: those of the roster that are on the
\* grid, the player aside
Removable ==
    {level.actors[i] : i \in {j \in 1..Len(level.actors) :
        level.actors[j] # level.player /\ level.tile[level.actors[j]].cell # NullCell}}

\* a tic in which the tiles remove the actors of a set
TicRoster ==
    /\ level.tic_counter < MaxRosterTic
    /\ \E gone \in SUBSET Removable : \E p1 \in {"null", "west"} :
          HookedTicDone(p1, "null", [name |-> "remove_tile", a |-> gone, b |-> 0],
                        advance_tic_hooked(level, p1, "null",
                                           [name |-> "remove_tile", a |-> gone, b |-> 0]))

UndoRoster ==
    /\ undos < MaxRosterUndo
    /\ Undo

NextRoster == TicRoster \/ UndoRoster

SpecRoster == InitRoster /\ [][NextRoster]_vars

\* the roster without the actors that have no cell, in the order it has
Survivors(L, roster) == SelectSeq(roster, LAMBDA t : L.tile[t].cell # NullCell)

\* C19: the compaction at the end of a tic removes from the roster exactly
\* the entries without a cell and keeps the others in their order; and an
\* undo of the tic puts every removed actor back at the index it had, however
\* many were removed and wherever they were in the roster
C19_CompactionAndUndo ==
    /\ [](ClockReached =>
            /\ \A i \in 1..Len(level.actors) : level.tile[level.actors[i]].cell # NullCell
            /\ SelectSeq(level.actors,
                         LAMBDA t : \E j \in 1..Len(pre.actors) : pre.actors[j] = t)
                  = Survivors(level, pre.actors))
    /\ [][(call'.name = "undo" /\ call'.thrown = "none")
             => level'.actors = snaps[Len(snaps)].logged.actors]_vars

\* an undo that puts back the first two entries of the roster, which are
\* adjacent, and the last one
C19_Witness ==
    /\ call.name = "undo" /\ call.thrown = "none"
    /\ Len(pre.actors) = 1 /\ Len(level.actors) = 4

\* a compaction that removes the first and the last entry of the roster
C19_WitnessEnds ==
    /\ ClockReached /\ Len(pre.actors) = 4 /\ Len(level.actors) = 2
    /\ level.actors[1] = pre.actors[2] /\ level.actors[2] = pre.actors[3]

----------------------------------------------------------------------------
(* Specification SpecFloor: the idle level, on which a tile (a random force  *)
(* floor) may ask for the shared force-floor direction in a tic; undo        *)
(* allowed at any time                                                       *)

MaxFloorTic == 4     \* tics played in a game of the force-floor specification
MaxFloorUndo == 3    \* undos made in a game of the force-floor specification

\* get_force_floor_direction() called in a tic: not at all, once, twice
FloorHooks ==
    {NoHook,
     [name |-> "get_force_floor_direction", a |-> 1, b |-> 0],
     [name |-> "get_force_floor_direction", a |-> 2, b |-> 0]}

InitFloor ==
    /\ random_byte = 0
    /\ level = restart(IdleLevel(0, 0), FALSE, random_byte)
    /\ call = NoCall
    /\ pre = level
    /\ snaps = <<>>
    /\ outs = <<>>
    /\ decisions = <<>>
    /\ undos = 0
    /\ neighbors = <<>>
    /\ selection = NewSelection

TicFloor ==
    /\ level.tic_counter < MaxFloorTic
    /\ \E h \in FloorHooks :
          HookedTicDone("null", "null", h, advance_tic_hooked(level, "null", "null", h))

UndoFloor ==
    /\ undos < MaxFloorUndo
    /\ Undo

NextFloor == TicFloor \/ UndoFloor

SpecFloor == InitFloor /\ [][NextFloor]_vars

\* C20 as stated: an undo() that follows a tic in which
\* get_force_floor_direction() was called leaves force_floor_direction equal
\* to the value it had before that tic
C20_UndoRestoresForceFloorDirection ==
    [][(call'.name = "undo" /\ call'.thrown = "none"
          /\ call.name = "advance_tic" /\ call.hook.name = "get_force_floor_direction")
          => level'.force_floor_direction = snaps[Len(snaps)].force_floor_direction]_vars

----------------------------------------------------------------------------
(* Specification SpecRewire: the game played on the wired level, undo        *)
(* allowed at any time                                                       *)

MaxRewireTic == 4    \* tics played in a game of the wiring-and-undo specification
MaxRewireUndo == 2   \* undos made in a game of the wiring-and-undo specification

TicRewire ==
    /\ level.tic_counter < MaxRewireTic
    /\ \E p1 \in {"null", "east", "west"} : AdvanceTic(p1, "null")

UndoRewire ==
    /\ undos < MaxRewireUndo
    /\ Undo

NextRewire == TicRewire \/ UndoRewire

SpecRewire == InitWire /\ [][NextRewire]_vars

\* the state of the wiring layer: the power of every cell and what every
\* power source is recorded to emit
WiringLayer(L) ==
    [powered_edges |-> L.powered_edges,
     prev_powered_edges |-> L.prev_powered_edges,
     emitting_edges |-> [k \in 1..Len(L.power_sources) |->
                            L.tile[L.power_sources[k]].emitting_edges]]

\* C21 as stated: an undo() that follows a tic in which update_wiring computed
\* the power again leaves every cell's powered_edges and prev_powered_edges
\* and every emitter's emitting_edges as they were before that tic
C21_UndoRestoresWiring ==
    [][(/\ call'.name = "undo" /\ call'.thrown = "none"
        /\ PlayedTic /\ call.thrown = "none"
        /\ WiringLayer(level) # WiringLayer(pre))
          => WiringLayer(level') = WiringLayer(pre)]_vars

----------------------------------------------------------------------------
(* Specification SpecMonster: the game played on the levels with monsters    *)
(* that choose their way                                                     *)

MaxMonsterTic == 8   \* tics played in a game of the monster specification

MonsterLevels == {PursuitLevel, IceTeethLevel, WalkerLevel, MazeLevel}

InitMonster ==
    /\ random_byte = 0
    /\ \E stored \in MonsterLevels : level = restart(stored, FALSE, random_byte)
    /\ call = NoCall
    /\ pre = level
    /\ snaps = <<>>
    /\ outs = <<>>
    /\ decisions = <<>>
    /\ undos = 0
    /\ neighbors = <<>>
    /\ selection = NewSelection

TicMonster ==
    /\ level.tic_counter < MaxMonsterTic
    /\ \E p1 \in {"null", "north"} : AdvanceTic(p1, "null")

NextMonster == TicMonster

SpecMonster == InitMonster /\ [][NextMonster]_vars

\* the level as the decision pass of the tic just played found it
AtDecision ==
    ResetPushing(update_wiring(RunSteppers(TickAll(BeginTic(pre, call.p2)), 1)))

----------------------------------------------------------------------------
(* The order of the passes *)

\* C22: in a tic, the entries of the roster are taken up by the first pass,
\* then by the decision pass, then by the movement pass, each pass being over
\* before the next begins, and within a pass in strictly decreasing index
C22_ReverseRosterOrder ==
    PlayedTic =>
        \A k \in 1..(Len(level.visited) - 1) :
            \/ level.visited[k][1] < level.visited[k + 1][1]
            \/ /\ level.visited[k][1] = level.visited[k + 1][1]
               /\ level.visited[k][2] > level.visited[k + 1][2]

\* a tic of the maze level in which the player, the fireball and the bug are
\* each taken up by each of the three passes
C22_Witness ==
    /\ PlayedTic
    /\ level.visited = << <<1, 2>>, <<1, 1>>, <<1, 0>>,
                          <<2, 2>>, <<2, 1>>, <<2, 0>>,
                          <<3, 2>>, <<3, 1>>, <<3, 0>> >>

----------------------------------------------------------------------------
(* Specification SpecSlide: the game played on the levels with force floors, *)
(* ice and cleats, in which attempt_step is also called on its own           *)

MaxSlideTic == 4     \* tics played in a game of the slide specification
MaxSlideCalls == 1   \* direct calls of attempt_step() in such a game

\* the directions the slide levels are played in
SlideDirs == {"east", "south"}

SlideLevels == {ForceLevel, OverrideLevel, CleatsLevel}

InitSlide ==
    /\ random_byte = 0
    /\ \E stored \in SlideLevels : level = restart(stored, FALSE, random_byte)
    /\ call = NoCall
    /\ pre = level
    /\ snaps = <<>>
    /\ outs = <<>>
    /\ decisions = <<>>
    /\ undos = 0
    /\ neighbors = <<>>
    /\ selection = NewSelection

TicSlide ==
    /\ level.tic_counter < MaxSlideTic
    /\ \E p1 \in {"null"} \cup SlideDirs : AdvanceTic(p1, "null")

\* level.attempt_step(actor, direction), for an actor that is on the grid
CallSlideStep ==
    /\ level.state = "playing"
    /\ Len(outs) < MaxSlideCalls
    /\ \E actor \in DOMAIN level.tile : \E direction \in SlideDirs :
          /\ TypeOf(level, actor).is_actor
          /\ level.tile[actor].cell # NullCell
          /\ StepDone(actor, direction,
                      Invoke(level, "attempt_step", <<actor, direction>>))

NextSlide == TicSlide \/ CallSlideStep

SpecSlide == InitSlide /\ [][NextSlide]_vars

----------------------------------------------------------------------------
(* The speed of a step *)

\* the cell holds a tile that makes actors slide
HasSlideTile(L, cell) ==
    \E i \in 1..Len(L.cells[cell]) :
        TypeOf(L, L.cells[cell][i]).slide_mode # "undefined"

\* the cell holds a tile that makes this actor slide: one it does not ignore
HasSlideTileFor(L, actor, cell) ==
    \E i \in 1..Len(L.cells[cell]) :
        /\ TypeOf(L, L.cells[cell][i]).slide_mode # "undefined"
        /\ ~ignores(L, actor, L.tile[L.cells[cell][i]].type)

\* the last call was an attempt_step that succeeded
SteppedAhead == Stepped /\ call.thrown = "none" /\ call.ret = 1

C24_WitnessIgnored ==
    /\ SteppedAhead
    /\ HasSlideTile(pre, StepGoal)
    /\ ~HasSlideTileFor(pre, call.p1, StepGoal)
    /\ level.tile[call.p1].movement_cooldown = PlayerSpeed

\* a step onto plain floor, at full speed
C24_WitnessFloor ==
    /\ SteppedAhead
    /\ ~HasSlideTile(pre, StepGoal)
    /\ level.tile[call.p1].movement_cooldown = PlayerSpeed

----------------------------------------------------------------------------
(* The pending push *)

\* the actors the decision pass of the tic just played took up
Deciders == {Actor(AtDecision, level.visited[k][2]) :
                k \in {j \in 1..Len(level.visited) : level.visited[j][1] = 2}}

\* the last call was an attempt_step that got as far as pushing: the actor
\* could step, and nothing but what it can push was in its way
PushingStep ==
    /\ Stepped /\ call.thrown = "none"
    /\ pre.tile[call.p1].movement_cooldown = 0
    /\ pre.tile[call.p1].stuck # "true"
    /\ StepGoal # NullCell
    /\ ~blocks_leaving(pre, StepFrom, call.p1, call.p2)
    /\ ~blocks_entering(pre, StepGoal, call.p1, call.p2, TRUE)

\* the tiles the pushing step pushed in vain because they were sliding
PushedInSlide ==
    {t \in DOMAIN pre.tile :
        /\ pre.tile[t].cell = StepGoal
        /\ can_push(pre, call.p1, t, call.p2)
        /\ pre.tile[t].slide_mode \in {"ice", "force"}
        /\ pre.tile[t].movement_cooldown > 0}

\* C25: a push that fails on an obstacle that is sliding with a cooldown left
\* records its direction on the obstacle; the decision pass that next takes
\* the obstacle up decides that direction, whatever the obstacle slides on,
\* and clears the record
C25_PendingPush ==
    /\ PushingStep =>
          \A t \in PushedInSlide :
              /\ call.ret = 0
              /\ level.tile[t].cell = StepGoal
              /\ level.tile[t].pending_push = call.p2
    /\ PlayedTic /\ call.thrown = "none" =>
          \A t \in DOMAIN pre.tile :
              pre.tile[t].pending_push \in Dirs =>
                 IF t \in Deciders
                 THEN /\ level.tile[t].decision = pre.tile[t].pending_push
                      /\ DecideAll(AtDecision, call.p1).tile[t].pending_push = "null"
                      /\ level.tile[t].pending_push \in Dirs
                            => level.tile[t].movement_cooldown > 0
                 ELSE level.tile[t].pending_push \in Dirs

\* the player has pushed south a block that was sliding west on a force floor
C25_Witness ==
    /\ PushingStep
    /\ \E t \in PushedInSlide :
          /\ pre.tile[t].pending_push \notin Dirs
          /\ level.tile[t].pending_push = call.p2
          /\ level.tile[t].direction # call.p2

\* the block on the force floor has decided the direction of that push, not
\* the direction it slides in, and the record is gone
C25_WitnessDecided ==
    /\ PlayedTic
    /\ \E t \in Deciders :
          /\ pre.tile[t].pending_push \in Dirs
          /\ AtDecision.tile[t].slide_mode = "force"
          /\ AtDecision.tile[t].direction # pre.tile[t].pending_push
          /\ level.tile[t].decision = pre.tile[t].pending_push
          /\ level.tile[t].pending_push = "null"

----------------------------------------------------------------------------
(* Force floors *)

\* the actors the decision pass of the tic just played found in force slide
\* mode
ForceDeciders == {t \in Deciders : AtDecision.tile[t].slide_mode = "force"}

\* in the tic just played the player, on a force floor, decided another
\* direction than the one it was facing
Overrode ==
    /\ PlayedTic /\ call.thrown = "none"
    /\ level.player \in ForceDeciders
    /\ level.tile[level.player].decision # AtDecision.tile[level.player].direction

\* the player decides against the force floor only by its input, and only if
\* its last move was forced; the decision of a force floor marks the move as
\* forced, an override marks it as not forced
PlayerOverride ==
    PlayedTic /\ call.thrown = "none" /\ level.player \in ForceDeciders =>
        /\ Overrode =>
              /\ call.p1 \in Dirs
              /\ level.tile[level.player].decision = call.p1
              /\ AtDecision.tile[level.player].last_move_was_force = "true"
              /\ level.tile[level.player].last_move_was_force = "false"
        /\ AtDecision.tile[level.player].last_move_was_force # "true" =>
              /\ ~Overrode
              /\ level.tile[level.player].last_move_was_force = "true"

\* a tic in which the player overrode a force floor is not followed by a tic
\* in which it overrides a force floor again
NoSecondOverride ==
    LET P == level.player
        D == ResetPushing(update_wiring(RunSteppers(TickAll(BeginTic(level, call'.p2)), 1)))
    IN  (/\ Overrode
         /\ level.state = "playing"
         /\ call'.name = "advance_tic" /\ call'.thrown = "none"
         /\ D.tile[P].slide_mode = "force"
         /\ \E k \in 1..Len(level'.visited) :
               /\ level'.visited[k][1] = 2
               /\ Actor(D, level'.visited[k][2]) = P)
        => level'.tile[P].decision = D.tile[P].direction

\* an actor in force slide mode that is not the player has decided the
\* direction it faces
OthersForced ==
    PlayedTic /\ call.thrown = "none" =>
        \A t \in ForceDeciders \ {level.player} :
            level.tile[t].decision = AtDecision.tile[t].direction

\* the same of the actors that have no pending push recorded
OthersForcedUnlessPushed ==
    PlayedTic /\ call.thrown = "none" =>
        \A t \in ForceDeciders \ {level.player} :
            AtDecision.tile[t].pending_push \notin Dirs =>
                level.tile[t].decision = AtDecision.tile[t].direction

\* C26 as stated: an actor in force slide mode that is not the player always
\* decides the direction it faces; the player's input replaces that direction
\* only when its previous move was forced, so that it never overrides in two
\* force-floor decisions in a row
C26_ForceFloorDecision ==
    [](OthersForced /\ PlayerOverride) /\ [][NoSecondOverride]_vars

\* C26, amended: an actor in force slide mode that is not the player and has
\* no pending push recorded decides the direction it faces; the rest as
\* stated
C26_ForceFloorDecisionUnlessPushed ==
    [](OthersForcedUnlessPushed /\ PlayerOverride) /\ [][NoSecondOverride]_vars

\* the player, on a force floor again in the tic after it overrode one, has
\* given an input against the floor and decided the floor's direction
C26_Witness ==
    /\ PlayedTic /\ call.thrown = "none"
    /\ level.player \in ForceDeciders
    /\ pre.tile[level.player].slide_mode = "force"
    /\ pre.tile[level.player].decision \in Dirs
    /\ pre.tile[level.player].decision # pre.tile[level.player].direction
    /\ call.p1 \in Dirs
    /\ call.p1 # AtDecision.tile[level.player].direction
    /\ AtDecision.tile[level.player].last_move_was_force = "false"
    /\ level.tile[level.player].decision = AtDecision.tile[level.player].direction

\* the player has overridden a force floor
C26_WitnessOverride == Overrode

\* a block without a pending push has decided the direction of its force floor
C26_WitnessBlock ==
    /\ PlayedTic /\ call.thrown = "none"
    /\ \E t \in ForceDeciders \ {level.player} :
          /\ AtDecision.tile[t].pending_push \notin Dirs
          /\ level.tile[t].decision = AtDecision.tile[t].direction

----------------------------------------------------------------------------
(* Teeth *)

\* the teeth-like actors the decision pass of the tic just played took up:
\* on the grid, listed in the roster and not cooling down
TeethInTurn == {t \in Deciders : TypeOf(AtDecision, t).uses_teeth_hesitation}

\* the tic just played is one of the hesitation half of the cycle of eight
HesitationTic == (pre.tic_counter + pre.step_parity) % 8 >= 4

\* the actor has taken no decision in the tic just played and is where the
\* decision pass found it, at rest
StoodStill(t) ==
    /\ level.tile[t].decision \notin Dirs
    /\ level.tile[t].cell = AtDecision.tile[t].cell
    /\ level.tile[t].movement_cooldown = 0

\* C27 as stated: a teeth-like actor makes no decision and starts no move in
\* any tic where (tic_counter + step_parity) mod 8 >= 4
C27_TeethHesitate ==
    PlayedTic /\ call.thrown = "none" /\ HesitationTic =>
        \A t \in TeethInTurn : StoodStill(t)

\* C27, amended: a teeth-like actor that is not sliding makes no decision and
\* starts no move in any tic where (tic_counter + step_parity) mod 8 >= 4; one
\* that is sliding decides the direction it slides in, in any tic
C27_TeethHesitateUnlessSliding ==
    PlayedTic /\ call.thrown = "none" /\ HesitationTic =>
        \A t \in TeethInTurn :
            IF AtDecision.tile[t].slide_mode = "null"
            THEN StoodStill(t)
            ELSE level.tile[t].decision = AtDecision.tile[t].direction

\* a teeth at rest, not sliding, with the player two cells away, has let a
\* tic of the hesitation half go by
C27_Witness ==
    /\ PlayedTic /\ HesitationTic
    /\ \E t \in TeethInTurn :
          /\ AtDecision.tile[t].slide_mode = "null"
          /\ StoodStill(t)
          /\ pre.tic_counter > 4

\* a teeth sliding on ice has decided and moved on in a tic of the hesitation
\* half
C27_WitnessSliding ==
    /\ PlayedTic /\ HesitationTic
    /\ \E t \in TeethInTurn :
          /\ AtDecision.tile[t].slide_mode = "ice"
          /\ level.tile[t].decision = AtDecision.tile[t].direction
          /\ level.tile[t].cell # AtDecision.tile[t].cell

\* a teeth has decided in a tic of the other half
C27_WitnessDecided ==
    /\ PlayedTic /\ ~HesitationTic
    /\ \E t \in TeethInTurn : level.tile[t].decision \in Dirs

----------------------------------------------------------------------------
(* The choice among preferred directions *)

\* the direction leads the actor to a cell of the grid, nothing on its own
\* cell closes the way out, and nothing on that cell but what the actor can
\* push closes the way in
Qualifies(L, actor, direction) ==
    LET from == L.tile[actor].cell
        dest == get_neighboring_cell(L, from, direction)
    IN  /\ dest # NullCell
        /\ \A i \in 1..Len(L.cells[from]) :
              L.cells[from][i] = actor
                 \/ direction \notin TypeOf(L, L.cells[from][i]).thin_walls
        /\ \A i \in 1..Len(L.cells[dest]) :
              \/ ~blocks(L, L.cells[dest][i], actor, direction)
              \/ can_push(L, actor, L.cells[dest][i], direction)

\* the first direction of the list, from position k on, that qualifies; the
\* last of the list if there is none
RECURSIVE ListChoiceFrom(_, _, _, _)
ListChoiceFrom(L, actor, list, k) ==
    IF k >= Len(list) THEN list[Len(list)]
    ELSE IF Qualifies(L, actor, list[k]) THEN list[k]
    ELSE ListChoiceFrom(L, actor, list, k + 1)

ListChoice(L, actor, list) ==
    IF list = <<>> THEN "null" ELSE ListChoiceFrom(L, actor, list, 1)

\* the actors of the tic just played that chose by their movement mode: taken
\* up by the decision pass, not stuck, not hesitating, not sliding, and with
\* no push pending
Choosers(mode) ==
    {t \in Deciders :
        /\ TypeOf(AtDecision, t).movement_mode = mode
        /\ t # level.player
        /\ AtDecision.tile[t].stuck # "true"
        /\ AtDecision.tile[t].slide_mode = "null"
        /\ AtDecision.tile[t].pending_push \notin Dirs
        /\ ~Hesitates(AtDecision, t)}

----------------------------------------------------------------------------
(* Pursuit *)

\* the directions towards a cell: the axis of the larger distance first, the
\* vertical one if they are equal, an axis without distance left out
Towards(L, actor, target_cell) ==
    LET dx == CellX(L, L.tile[actor].cell) - CellX(L, target_cell)
        dy == CellY(L, L.tile[actor].cell) - CellY(L, target_cell)
        adx == IF dx < 0 THEN -dx ELSE dx
        ady == IF dy < 0 THEN -dy ELSE dy
        h == IF dx > 0 THEN <<"west">> ELSE IF dx < 0 THEN <<"east">> ELSE <<>>
        v == IF dy > 0 THEN <<"north">> ELSE IF dy < 0 THEN <<"south">> ELSE <<>>
    IN  IF adx > ady THEN h \o v ELSE v \o h

\* the player is moving: it has a cell it left and an animation running
PlayerMoving(L) ==
    /\ L.tile[L.player].previous_cell > 0
    /\ L.tile[L.player].animation_speed > 0

\* the player is moving and less than halfway through its move
LessThanHalfway(L) ==
    /\ PlayerMoving(L)
    /\ 2 * L.tile[L.player].animation_progress < L.tile[L.player].animation_speed

\* C28: a pursuing actor heads for the cell the player left exactly when the
\* player is moving and less than halfway through the move; when the player
\* is exactly halfway or further, or not moving, it heads for the player's
\* cell
C28_PursueTarget ==
    PlayedTic /\ call.thrown = "none" =>
        \A t \in Choosers("pursue") :
            level.tile[t].decision =
                ListChoice(AtDecision, t,
                           Towards(AtDecision, t,
                                   IF LessThanHalfway(AtDecision)
                                   THEN AtDecision.tile[AtDecision.player].previous_cell
                                   ELSE AtDecision.tile[AtDecision.player].cell))

----------------------------------------------------------------------------
(* Walkers *)

\* the draws from the PRNG that the tic just played has logged
Draws ==
    LET entry == level.undo_stack[Len(level.undo_stack)]
    IN  Cardinality({i \in 1..Len(entry) : entry[i].k = "rng"})

\* the tic just played had one walker choosing and no other actor that draws
\* from the PRNG
LoneWalker(t) ==
    /\ PlayedTic /\ call.thrown = "none"
    /\ Choosers("bounce-random") = {t}
    /\ \A i \in 1..Len(AtDecision.actors) :
          TypeOf(AtDecision, AtDecision.actors[i]).movement_mode # "random"

\* the way ahead of the actor was free when the decision pass found it
WayAhead(t) ==
    CanGo(AtDecision, t, AtDecision.tile[t].direction,
          get_neighboring_cell(AtDecision, AtDecision.tile[t].cell,
                               AtDecision.tile[t].direction))

\* the compass, clockwise, and a direction turned right n times on it
Clockwise == <<"north", "east", "south", "west">>

TurnedRight(direction, n) ==
    Clockwise[(((CHOOSE k \in 1..4 : Clockwise[k] = direction) - 1 + n) % 4) + 1]

\* C29: a walker whose direction is passable decides that direction and the
\* tic leaves the registers of the PRNG as they were; a walker whose direction
\* is blocked or leads off the grid draws exactly one value and decides its
\* direction turned right by that value mod 4
C29_WalkerDraw ==
    \A t \in DOMAIN level.tile :
        LoneWalker(t) =>
            IF WayAhead(t)
            THEN /\ level.tile[t].decision = AtDecision.tile[t].direction
                 /\ Draws = 0
                 /\ level.rng1 = pre.rng1 /\ level.rng2 = pre.rng2
            ELSE /\ level.tile[t].decision =
                        TurnedRight(AtDecision.tile[t].direction, prng(pre).ret % 4)
                 /\ Draws = 1
                 /\ level.rng1 = prng(pre).rng1 /\ level.rng2 = prng(pre).rng2

\* a walker facing the edge of the grid has drawn a value that turns it, and
\* decided the direction turned
C29_Witness ==
    \E t \in DOMAIN level.tile :
        /\ LoneWalker(t) /\ ~WayAhead(t)
        /\ Draws = 1
        /\ prng(pre).ret % 4 # 0
        /\ level.tile[t].decision # AtDecision.tile[t].direction

\* a walker with the way ahead free has decided it without a draw
C29_WitnessAhead ==
    \E t \in DOMAIN level.tile :
        /\ LoneWalker(t) /\ WayAhead(t)
        /\ Draws = 0
        /\ level.tile[t].decision = AtDecision.tile[t].direction

----------------------------------------------------------------------------
(* Preference lists *)

\* the movement modes that choose from a list of directions
ListModes == {"follow-left", "follow-right", "turn-left", "turn-right",
              "bounce", "pursue"}

\* the actors of the tic just played that chose from a list
ListChoosers == UNION {Choosers(mode) : mode \in ListModes}

\* the list the actor chose from
ListOf(t) == DirectionPreference(AtDecision, t).list

\* C30: an actor that is not stuck and has a preference list decides the
\* first direction of the list whose neighbour cell exists and that is
\* blocked neither for leaving nor, pushable obstacles ignored, for entering;
\* if no direction of the list qualifies it decides the last one of the list
C30_PreferenceList ==
    PlayedTic /\ call.thrown = "none" =>
        \A t \in ListChoosers :
            level.tile[t].decision = ListChoice(AtDecision, t, ListOf(t))

\* an actor has decided the fourth direction of its list, the first three
\* leading off the grid or into a wall
C30_Witness ==
    /\ PlayedTic /\ call.thrown = "none"
    /\ \E t \in ListChoosers :
          /\ Len(ListOf(t)) = 4
          /\ \A k \in 1..3 : ~Qualifies(AtDecision, t, ListOf(t)[k])
          /\ Qualifies(AtDecision, t, ListOf(t)[4])
          /\ level.tile[t].decision = ListOf(t)[4]

\* an actor none of whose directions qualifies, one of them because of a thin
\* wall on its own cell, has decided the last of its list
C30_WitnessFallback ==
    /\ PlayedTic /\ call.thrown = "none"
    /\ \E t \in ListChoosers :
          /\ \A k \in 1..Len(ListOf(t)) : ~Qualifies(AtDecision, t, ListOf(t)[k])
          /\ \E k \in 1..Len(ListOf(t)) :
                /\ get_neighboring_cell(AtDecision, AtDecision.tile[t].cell,
                                         ListOf(t)[k]) # NullCell
                /\ blocks_leaving(AtDecision, AtDecision.tile[t].cell, t, ListOf(t)[k])
          /\ level.tile[t].decision = ListOf(t)[Len(ListOf(t))]

\* an actor has decided the first direction of its list
C30_WitnessFirst ==
    /\ PlayedTic /\ call.thrown = "none"
    /\ \E t \in ListChoosers :
          /\ Qualifies(AtDecision, t, ListOf(t)[1])
          /\ level.tile[t].decision = ListOf(t)[1]

----------------------------------------------------------------------------
(* The wiring left alone *)

\* the level as update_wiring found it in the tic just played
AtWiring == RunSteppers(TickAll(BeginTic(pre, call.p2)), 1)

\* what tile t emits in level L: the edges of a power source; of an actor,
\* whether it is at rest and holds a lightning bolt
Emission(L, t) ==
    IF TypeOf(L, t).is_power_source THEN get_emitting_edges(L, t)
    ELSE IF L.tile[t].movement_cooldown = 0
    THEN has_item(L, t, "lightning_bolt") ELSE FalseN

\* the power sources and the actors that update_wiring looks at
Emitting(L) ==
    {t \in DOMAIN L.tile :
        /\ L.tile[t].cell # NullCell
        /\ \/ \E k \in 1..Len(L.power_sources) : L.power_sources[k] = t
           \/ \E k \in 1..Len(L.actors) : L.actors[k] = t}

\* none of them emits anything else than was recorded of it
SameEmissions(L) ==
    \A t \in Emitting(L) : Emission(L, t) = L.tile[t].emitting_edges

\* C31: in a tic in which no power source and no actor emits anything else
\* than was recorded of it, update_wiring leaves the powered_edges and the
\* prev_powered_edges of every cell as they were and no tile reacts to power:
\* the level goes into the decision pass as it came out of the first pass
C31_WiringSkipped ==
    PlayedTic /\ call.thrown = "none" /\ SameEmissions(AtWiring) =>
        /\ level.powered_edges = pre.powered_edges
        /\ level.prev_powered_edges = pre.prev_powered_edges
        /\ AtDecision = ResetPushing(AtWiring)

\* a tic skipped while the button is held down, the cells keeping the record
\* of having been without power
C31_Witness ==
    /\ PlayedTic /\ call.thrown = "none" /\ SameEmissions(AtWiring)
    /\ \E c \in DOMAIN level.cells :
          level.powered_edges[c] # 0 /\ level.prev_powered_edges[c] = 0

\* a tic in which an emission changed and the circuit was computed again
C31_WitnessChanged ==
    /\ PlayedTic /\ call.thrown = "none" /\ ~SameEmissions(AtWiring)
    /\ level.powered_edges # pre.powered_edges

----------------------------------------------------------------------------
(* Specification SpecFill: the flood fill of update_wiring, in the first tic *)
(* of a wired level, one entry of the work queue at a time.  The entry is    *)
(* any entry of the queue; the code takes the first.                         *)

Circuits == {TunnelLevel, LoopLevel, TwinLevel, BorderLevel, EdgeWireLevel}

\* update_wiring as far as the flood fill: the emitters gathered, the power
\* of every cell turned off
Seeded(L) ==
    LET acc == GatherActors(GatherSources([L |-> L, neighbors |-> <<>>,
                                           any_changed |-> FALSE], 1), 1)
    IN  [acc EXCEPT !.L.prev_powered_edges = acc.L.powered_edges,
                    !.L.powered_edges = [c \in DOMAIN acc.L.cells |-> 0]]

\* the first tic of a level as far as update_wiring
FirstWiring(stored) ==
    RunSteppers(TickAll(BeginTic(restart(stored, FALSE, 0), "null")), 1)

InitFill ==
    /\ random_byte = 0
    /\ \E stored \in Circuits :
          /\ level = Seeded(FirstWiring(stored)).L
          /\ neighbors = Seeded(FirstWiring(stored)).neighbors
    /\ call = NoCall
    /\ pre = level
    /\ snaps = <<>>
    /\ outs = <<>>
    /\ decisions = <<>>
    /\ undos = 0
    /\ selection = NewSelection

\* the queue without its entry i
Without(queue, i) == SubSeq(queue, 1, i - 1) \o SubSeq(queue, i + 1, Len(queue))

\* one round of the loop of the flood fill, on entry i of the queue
FillStep ==
    /\ call.thrown = "none"
    /\ \E i \in 1..Len(neighbors) :
          LET acc == FillEntry([L |-> level, neighbors |-> Without(neighbors, i),
                                any_changed |-> TRUE], neighbors[i])
          IN  /\ level' = Settled(acc.L)
              /\ neighbors' = acc.neighbors
              /\ call' = Call("update_wiring", neighbors[i].cell, neighbors[i].from, acc.L)
              /\ outs' = Append(outs, <<neighbors[i].cell, neighbors[i].from>>)
    /\ pre' = level
    /\ UNCHANGED <<snaps, decisions, undos, random_byte, selection>>

NextFill == FillStep

SpecFill == InitFill /\ [][NextFill]_vars

\* the loop goes on as long as the queue has entries
SpecFillFair == SpecFill /\ WF_vars(NextFill)

\* the fill has run to its end: the queue is empty and nothing was thrown
FillDone == neighbors = <<>> /\ call.thrown = "none" /\ outs # <<>>

\* the level at the start of the fill under way
FillStart == Seeded(FirstWiring(level.stored_level))

\* no edge of any cell loses its power
MaskGrows ==
    \A c \in DOMAIN level.powered_edges :
        BitAnd(level.powered_edges[c], level'.powered_edges[c]) = level.powered_edges[c]

\* C32: within one flood fill no edge bit of powered_edges that is set is
\* cleared again, and when the fill has run to its end, in whatever order
\* the entries of the queue were taken, the masks of all cells are those of
\* the fill that takes the entries in the order of the queue.
C32_MaskGrows ==
    /\ [](FillDone => level.powered_edges = FloodFill(FillStart).powered_edges)
    /\ [][MaskGrows]_vars

\* a fill at its end that did not take the entries in the order of the
\* queue, with a cell powered on two edges by two arrivals
C32_Witness ==
    /\ FillDone
    /\ level.stored_level.number = 16
    /\ level.powered_edges[6] = 9
    /\ outs[1][1] = 3 /\ outs[2][1] = 6

\* how many rounds of the loop took the entry (cell, from) so far
Rounds(cell, from) == Cardinality({i \in 1..Len(outs) : outs[i] = <<cell, from>>})

\* the fill was given up: a round of the loop threw
FillFaulted == call.thrown # "none"

\* C33: the flood fill terminates on every grid, with loops, crossings and
\* tunnels: no (cell, arrival edge) pair is taken from the queue more than
\* twice, and the work queue is empty in the end.
C33_FillTerminates ==
    /\ [](\A c \in DOMAIN level.cells : \A d \in Dirs : Rounds(c, d) <= 2)
    /\ <>(neighbors = <<>>)

\* C33, side check: the fill always comes to an end, by an empty queue or by
\* a round that throws
C33_FillStops == <>(neighbors = <<>> \/ FillFaulted)

\* C36: update_wiring completes without a fault on every grid, also when a
\* powered edge of an emitter or of a wire in a border cell points off the
\* grid: no round of the loop throws, and the whole method throws nothing.
C36_WiringCompletes ==
    /\ ~FillFaulted
    /\ update_wiring(FirstWiring(level.stored_level)).thrown = "none"

\* the wire of cell c goes into a tunnel on its edge d
TunnelOut(c, d) ==
    LET wire == get_wired_tile(level, c)
    IN  wire # 0 /\ HasBit(Bits(level.tile[wire].wire_tunnel_directions), d)

\* the cells k steps from cell c in direction d (none outside the grid)
Along(c, d, k) ==
    {t \in DOMAIN level.cells :
        /\ CellX(level, t) = CellX(level, c) + k * DIRECTIONS[d].movement[1]
        /\ CellY(level, t) = CellY(level, c) + k * DIRECTIONS[d].movement[2]}

\* the cells k steps from c in direction d whose wire has a tunnel on the
\* edge facing c
EndAt(c, d, k) == {t \in Along(c, d, k) : TunnelOut(t, DIRECTIONS[d].opposite)}

\* the nearest such cell, if there is one
NearestEnd(c, d) ==
    UNION {EndAt(c, d, k) : k \in {k \in 1..(level.width + level.height) :
                                    \A j \in 1..(k - 1) : EndAt(c, d, j) = {}}}

\* the wire of cell t includes the edge d
WireOn(t, d) ==
    LET wire == get_wired_tile(level, t)
    IN  wire # 0 /\ HasBit(Bits(level.tile[wire].wire_directions), d)

\* the entries a round of the loop put on the queue
Added == SubSeq(neighbors', Len(neighbors), Len(neighbors'))

\* a round of the loop that passed the power of its cell on: power leaving
\* through a tunnel is queued for the nearest end, and for no other cell
TunnelRound ==
    /\ outs' # outs
    /\ call'.thrown = "none"
    /\ call'.p2 \in Dirs => WireOn(call'.p1, call'.p2)
    => \A d \in Dirs :
          /\ d # call'.p2
          /\ HasBit(level'.powered_edges[call'.p1], d)
          /\ TunnelOut(call'.p1, d)
          => {Added[i].cell : i \in {i \in DOMAIN Added :
                                       Added[i].from = DIRECTIONS[d].opposite}}
               = {t \in NearestEnd(call'.p1, d) :
                    /\ ~HasBit(level.powered_edges[t], DIRECTIONS[d].opposite)
                    /\ WireOn(t, DIRECTIONS[d].opposite)}

\* at the end of the fill, the far end of every tunnel that a round of the
\* loop sent power into is powered on the edge of its tunnel
TunnelsPowered ==
    FillDone =>
        \A i \in DOMAIN outs : \A d \in Dirs :
            /\ d # outs[i][2]
            /\ outs[i][2] \in Dirs => WireOn(outs[i][1], outs[i][2])
            /\ HasBit(level.powered_edges[outs[i][1]], d)
            /\ TunnelOut(outs[i][1], d)
            => \A t \in NearestEnd(outs[i][1], d) :
                  WireOn(t, DIRECTIONS[d].opposite)
                      => HasBit(level.powered_edges[t], DIRECTIONS[d].opposite)

C34_WitnessNoEnd ==
    /\ FillDone
    /\ level.stored_level.number = 15
    /\ NearestEnd(6, "east") = {}
    /\ HasBit(level.powered_edges[6], "east")
    /\ \A t \in 7..10 : level.powered_edges[t] = 0

----------------------------------------------------------------------------
(* Specification SpecTeleport: games on the levels with teleporters, with   *)
(* direct calls of step_on_cell for an actor at rest                        *)

MaxTeleportTic == 5     \* tics played in a game of the teleport specification
MaxTeleportCalls == 1   \* direct calls of step_on_cell() in such a game

TeleportDirs == {"east", "south", "west"}

TeleportLevels == {BlueLevel, WalledLevel, RedLevel, RedBlockedLevel}

InitTeleport ==
    /\ random_byte = 0
    /\ \E stored \in TeleportLevels : level = restart(stored, FALSE, random_byte)
    /\ call = NoCall
    /\ pre = level
    /\ snaps = <<>>
    /\ outs = <<>>
    /\ decisions = <<>>
    /\ undos = 0
    /\ neighbors = <<>>
    /\ selection = NewSelection

TicTeleport ==
    /\ level.tic_counter < MaxTeleportTic
    /\ \E p1 \in {"null"} \cup TeleportDirs : AdvanceTic(p1, "null")

\* step_on_cell(actor, cell) has been called and L came back
SteppedOn(actor, cell, L) ==
    /\ level' = Collect(Settled(L))
    /\ call' = Call("step_on_cell", actor, cell, L)
    /\ pre' = level
    /\ outs' = Append(outs, Len(L.tried))
    /\ UNCHANGED <<snaps, decisions, undos, random_byte, neighbors, selection>>

\* level.step_on_cell(actor, actor.cell), for an actor at rest on the grid
CallStepOnCell ==
    /\ level.state = "playing"
    /\ Len(outs) < MaxTeleportCalls
    /\ \E actor \in DOMAIN level.tile :
          /\ TypeOf(level, actor).is_actor
          /\ level.tile[actor].cell # NullCell
          /\ level.tile[actor].movement_cooldown = 0
          /\ SteppedOn(actor, level.tile[actor].cell,
                       step_on_cell([level EXCEPT !.tried = <<>>], actor,
                                    level.tile[actor].cell))

NextTeleport == TicTeleport \/ CallStepOnCell

SpecTeleport == InitTeleport /\ [][NextTeleport]_vars

----------------------------------------------------------------------------
(* Teleporting *)

\* the destinations tried for one actor, in the order they were tried
Entries(actor) == SelectSeq(level.tried, LAMBDA e : e.actor = actor)

\* the actors that a teleporter took up in the last call
Teleported == {level.tried[i].actor : i \in DOMAIN level.tried}

\* the teleporter in the cell of the actor
TeleporterUnder(L, actor) ==
    CHOOSE t \in DOMAIN L.tile :
        /\ TypeOf(L, t).has_teleport_dest_order
        /\ L.tile[t].cell = L.tile[actor].cell

\* the places the actor has in the cells of the grid
Places(L, actor) ==
    {<<c, i>> \in (DOMAIN L.cells) \X (1..L.ntiles) :
        i <= Len(L.cells[c]) /\ L.cells[c][i] = actor}

\* the destinations the actor was put on
PutOn(actor) ==
    SelectSeq(Entries(actor), LAMBDA e : e.outcome # "occupied")

\* every destination of the order was tried and none let the actor out
AllFailed(actor) ==
    /\ call.name = "step_on_cell"
    /\ call.thrown = "none"
    /\ call.p1 = actor
    /\ \A i \in DOMAIN Entries(actor) : Entries(actor)[i].outcome # "exited"

\* C35: the destinations of a teleport are tried in the order the type of
\* the teleporter gives; the actor is put on a destination exactly when no
\* other actor is in its cell; no destination is tried after the one the
\* actor stepped out of; and when every destination fails, all were tried,
\* the actor is in exactly one cell (that of the last destination it was
\* put on) and faces the way it did.
C35_Teleport ==
    \A actor \in Teleported :
        call.name = "step_on_cell" \/ PlayedTic =>
        LET tried == Entries(actor)
            order == teleport_dest_order(pre, TeleporterUnder(pre, actor), actor)
        IN  /\ Len(tried) <= Len(order)
            /\ \A i \in DOMAIN tried :
                  /\ tried[i].dest = order[i]
                  /\ (tried[i].outcome = "occupied") <=> (tried[i].others # {})
                  /\ i < Len(tried) => tried[i].outcome # "exited"
            /\ AllFailed(actor) =>
                  /\ Len(tried) = Len(order)
                  /\ Cardinality(Places(level, actor)) = 1
                  /\ \E c \in DOMAIN level.cells :
                        /\ level.tile[actor].cell = c
                        /\ \E i \in 1..Len(level.cells[c]) : level.cells[c][i] = actor
                        /\ c = IF PutOn(actor) = <<>> THEN pre.tile[actor].cell
                               ELSE level.tile[PutOn(actor)[Len(PutOn(actor))].dest].cell
                  /\ level.tile[actor].direction = pre.tile[actor].direction

\* a teleport in which the first destination was occupied and was skipped,
\* and the actor stepped out of the second, which ended it
C35_Witness ==
    /\ PlayedTic
    /\ Len(level.tried) = 2
    /\ level.tried[1].outcome = "occupied"
    /\ level.tried[2].outcome = "exited"
    /\ Len(teleport_dest_order(pre, TeleporterUnder(pre, level.tried[1].actor),
                               level.tried[1].actor)) = 3

\* a red teleport in which every destination failed: four directions at the
\* far teleporter, one at the teleporter itself
C35_WitnessAllFailed ==
    /\ level.stored_level.number = 23
    /\ AllFailed(level.player)
    /\ Len(level.tried) = 2
    /\ level.tile[level.player].cell = 8

----------------------------------------------------------------------------
(* Undo with nothing to undo *)

\* C37: undo() called when the undo stack is empty (at the start of the
\* level, or after as many undos as tics were committed) raises no fault and
\* leaves every field of the game state as it was, the aid count included.
C37_UndoOnEmptyStack ==
    call.name = "undo" /\ Len(pre.undo_stack) = 0 =>
        /\ call.thrown = "none"
        /\ Logged(level) = Logged(pre)
        /\ level.aid = pre.aid

----------------------------------------------------------------------------
(* Specification SpecClock: the timed and the untimed level with the exit;   *)
(* tics in which a tile may call pause_timer or adjust_timer, direct calls   *)
(* of the two methods between tics, and undo                                 *)

MaxClockTic == 3     \* tics played in a game of the clock specification
MaxClockCalls == 1   \* direct calls of pause_timer() / adjust_timer()
MaxClockUndo == 2    \* calls of undo()

\* the calls of the timer methods
TimerCalls ==
    {[name |-> "pause_timer", a |-> 0, b |-> 0],
     [name |-> "adjust_timer", a |-> -1, b |-> 0],
     [name |-> "adjust_timer", a |-> 0, b |-> 0],
     [name |-> "adjust_timer", a |-> 1, b |-> 0]}

InitClock ==
    /\ random_byte = 0
    /\ \E limit \in {0, 1} : level = restart(ExitLevel(limit), FALSE, random_byte)
    /\ call = NoCall
    /\ pre = level
    /\ snaps = <<>>
    /\ outs = <<>>
    /\ decisions = <<>>
    /\ undos = 0
    /\ neighbors = <<>>
    /\ selection = NewSelection

\* (a game that is being played with 0 on the clock is not played further:
\* the clock would take it to the number -1, which stands for null here)
TicClock ==
    /\ level.state = "playing" => level.tic_counter < MaxClockTic
    /\ ~(level.state = "playing" /\ level.time_remaining = 0)
    /\ \E h \in {NoHook} \cup TimerCalls :
          /\ level.state # "playing" => h = NoHook
          /\ HookedTicDone("null", "null", h, advance_tic_hooked(level, "null", "null", h))

\* the driver has called a timer method and L came back
TimerDone(h, L) ==
    /\ level' = Collect(Settled(L))
    /\ call' = [Call(h.name, "null", "null", L) EXCEPT !.hook = h]
    /\ pre' = level
    /\ outs' = Append(outs, <<h.name, h.a, level.state>>)
    /\ UNCHANGED <<snaps, decisions, undos, random_byte, neighbors, selection>>

\* level.pause_timer() or level.adjust_timer(dt), between two tics
CallTimer ==
    /\ Len(outs) < MaxClockCalls
    /\ \E h \in TimerCalls : TimerDone(h, CallHook(level, h))

UndoClock ==
    /\ undos < MaxClockUndo
    /\ Undo

NextClock == TicClock \/ CallTimer \/ UndoClock

SpecClock == InitClock /\ [][NextClock]_vars

\* C38: while the game is being played on a timed level, time_remaining is
\* at least 1, whatever tics, calls of adjust_timer and pause_timer and
\* undos led there; and time_remaining, where it is a number, is never
\* negative in any state.
C38_TimerInvariant ==
    level.time_remaining # NullN =>
        /\ level.time_remaining >= 0
        /\ level.state = "playing" => level.time_remaining >= 1

\* every direct call of a timer method was made while the game was being
\* played
CalledInPlay == \A i \in DOMAIN outs : outs[i][3] = "playing"

\* C38, side check: the same as long as adjust_timer and pause_timer are
\* called only while the game is being played
C38_TimerInvariantInPlay == CalledInPlay => C38_TimerInvariant

\* the game goes on with one tic left on the clock: the timer was paused
\* when adjust_timer took the time away
C38_Witness ==
    /\ level.state = "playing"
    /\ level.time_remaining = 1
    /\ level.timer_paused
    /\ call.hook.name = "adjust_timer"
    /\ call.hook.a = -1

\* the game is being played again after the undo of the tic in which the
\* time ran out
C38_WitnessUndone ==
    /\ call.name = "undo"
    /\ call.thrown = "none"
    /\ pre.state = "failure"
    /\ pre.fail_reason = "time"
    /\ pre.time_remaining = 0
    /\ level.state = "playing"
    /\ level.time_remaining >= 1

----------------------------------------------------------------------------
(* Cooldown and animation                                                    *)

\* the tiles of the roster that are not animations played once (no ttl)
MovingActors(L) ==
    {L.actors[i] : i \in DOMAIN L.actors} \ {t \in DOMAIN L.tile : TypeOf(L, t).ttl > 0}

\* the actor has a move animation in progress
Animated(L, t) == L.tile[t].animation_speed > 0

\* cooldown and animation of one actor agree
InStep(L, t) ==
    /\ L.tile[t].movement_cooldown > 0 <=> Animated(L, t)
    /\ Animated(L, t) =>
          /\ L.tile[t].animation_progress >= 0
          /\ L.tile[t].animation_progress < L.tile[t].animation_speed
          /\ L.tile[t].movement_cooldown =
                L.tile[t].animation_speed - L.tile[t].animation_progress

C39_CutShort ==
    \A t \in MovingActors(level) :
        ~InStep(level, t) =>
            /\ level.state # "playing"
            /\ Animated(level, t)
            /\ level.tile[t].animation_progress = 0
            /\ level.tile[t].movement_cooldown = 0

C39_WitnessMidMove ==
    /\ PlayedTic
    /\ level.state = "playing"
    /\ \E t \in MovingActors(level) :
          /\ level.tile[t].animation_progress >= 1
          /\ level.tile[t].movement_cooldown >= 2

\* the player has left a teleporter's destination in the tic just played
C39_WitnessTeleported ==
    /\ PlayedTic
    /\ level.state = "playing"
    /\ \E i \in DOMAIN level.tried :
          level.tried[i].actor = level.player /\ level.tried[i].outcome = "exited"
    /\ level.tile[level.player].movement_cooldown = PlayerSpeed
    /\ level.tile[level.player].animation_progress = 0

----------------------------------------------------------------------------
(* The level editor's Selection.  The fields modelled are cells,             *)
(* floated_cells (the keys of the map), floated_offset and floated_element   *)
(* (present or not); the SVG elements, the canvas, the bounding box (null    *)
(* exactly when no cell is selected, as no rectangle is subtracted here) and *)
(* the cells of the level are left out.  editor._do(redo, undo) runs redo at *)
(* once.  null is written <<>>, and the map floated_cells <<its keys>>.      *)

\* what a method of the selection leaves: the object and the fault thrown
Sel(S, thrown) == [S |-> S, thrown |-> thrown]

is_empty(S) == S.cells = {}

is_floating(S) == S.floated_cells # <<>>

\* has_moved: floated_offset[0] is read twice, floated_offset[1] never
\* (the sequence here counts from 1)
has_moved(S) ==
    S.floated_offset # <<>> /\ (S.floated_offset[1] # 0 \/ S.floated_offset[1] # 0)

\* the cells of a rectangle of the level
RectCells(L, rect) ==
    {CellAt(L, x, y) : x \in rect.left..(rect.right - 1), y \in rect.top..(rect.bottom - 1)}

add_rect(L, S, rect) == Sel([S EXCEPT !.cells = @ \cup RectCells(L, rect)], "none")

clear(S) == IF is_empty(S) THEN Sel(S, "none") ELSE Sel([S EXCEPT !.cells = {}], "none")

\* enfloat: _init_floated_canvas reads this.bbox.width, and bbox is null
\* when nothing is selected
enfloat(S) ==
    IF S.floated_cells # <<>> THEN Sel(S, "none")
    ELSE IF S.cells = {}
    THEN Sel([S EXCEPT !.floated_cells = <<S.cells>>, !.floated_offset = <<0, 0>>], "Error")
    ELSE Sel([S EXCEPT !.floated_cells = <<S.cells>>, !.floated_offset = <<0, 0>>,
                       !.floated_element = TRUE], "none")

move_by(S, dx, dy) ==
    IF is_empty(S) THEN Sel(S, "none")
    ELSE IF S.floated_cells = <<>> THEN Sel(S, "none")
    ELSE Sel([S EXCEPT !.floated_offset = <<@[1] + dx, @[2] + dy>>], "none")

\* commit_floating: the selected cells moved by the offset, those that stay
\* inside the level
MovedCells(L, S) ==
    {CellAt(L, CellX(L, n) + S.floated_offset[1], CellY(L, n) + S.floated_offset[2]) :
        n \in {c \in S.cells :
                 is_point_within_bounds(L, CellX(L, c) + S.floated_offset[1],
                                           CellY(L, c) + S.floated_offset[2])}}

delete_floating(S) ==
    [S EXCEPT !.floated_cells = <<>>, !.floated_offset = <<>>,
              !.floated_element = FALSE]

commit_floating(L, S) ==
    IF ~S.floated_element THEN Sel(S, "none")
    ELSE Sel([delete_floating(S) EXCEPT !.cells = MovedCells(L, S)], "none")

----------------------------------------------------------------------------
(* Specification SpecSelection: a selection of the editor on a level of two  *)
(* by two cells: rectangles added, cleared, floated, moved and committed     *)

MaxOffset == 1   \* how far the floating selection is moved on an axis

\* the rectangles the editor adds: every cell by itself, and the whole level
Rects(L) ==
    {[left |-> x, top |-> y, right |-> x + 1, bottom |-> y + 1] :
        x \in 0..(L.width - 1), y \in 0..(L.height - 1)}
    \cup {[left |-> 0, top |-> 0, right |-> L.width, bottom |-> L.height]}

InitSelection ==
    /\ random_byte = 0
    /\ level = restart(PursuitLevel, FALSE, random_byte)
    /\ call = NoCall
    /\ pre = level
    /\ snaps = <<>>
    /\ outs = <<>>
    /\ decisions = <<>>
    /\ undos = 0
    /\ neighbors = <<>>
    /\ selection = NewSelection

\* the editor has called a method of the selection and out came back
SelectionDone(name, p1, p2, out) ==
    /\ selection' = out.S
    /\ call' = [name |-> name, p1 |-> p1, p2 |-> p2, ret |-> 0, thrown |-> out.thrown,
                hook |-> NoHook]
    /\ outs' = <<selection>>
    /\ UNCHANGED <<level, pre, snaps, decisions, undos, random_byte, neighbors>>

AddRect ==
    \E rect \in Rects(level) :
        SelectionDone("add_rect", rect.left, rect.top, add_rect(level, selection, rect))

Clear == SelectionDone("clear", "null", "null", clear(selection))

Enfloat == SelectionDone("enfloat", "null", "null", enfloat(selection))

Offset(S, i) == IF S.floated_offset = <<>> THEN 0 ELSE S.floated_offset[i]

MoveBy ==
    \E dx, dy \in {-1, 0, 1} :
        /\ Offset(selection, 1) + dx \in (0 - MaxOffset)..MaxOffset
        /\ Offset(selection, 2) + dy \in (0 - MaxOffset)..MaxOffset
        /\ SelectionDone("move_by", dx, dy, move_by(selection, dx, dy))

CommitFloating ==
    SelectionDone("commit_floating", "null", "null", commit_floating(level, selection))

NextSelection == AddRect \/ Clear \/ Enfloat \/ MoveBy \/ CommitFloating

SpecSelection == InitSelection /\ [][NextSelection]_vars

\* C40: has_moved is true exactly when the selection is floating and its
\* floated offset is not zero on at least one axis, horizontal or vertical,
\* after any sequence of move_by calls.
C40_HasMoved ==
    has_moved(selection) <=>
        /\ is_floating(selection)
        /\ selection.floated_offset[1] # 0 \/ selection.floated_offset[2] # 0

\* C40, side check: has_moved is true exactly when the selection is floating
\* and its floated offset is not zero on the horizontal axis
C40_HasMovedAcross ==
    has_moved(selection) <=>
        is_floating(selection) /\ selection.floated_offset[1] # 0

\* the floating selection has been moved down only
C40_WitnessDown ==
    /\ call.name = "move_by"
    /\ is_floating(selection)
    /\ selection.floated_offset[1] = 0
    /\ selection.floated_offset[2] # 0
    /\ outs[1].floated_offset = <<0, 0>>

====
